---- MODULE Spec2Model ----
(***************************************************************************)
(* Model of the CPAN bridge daemon (python_helpers/cpan_daemon.py), of its *)
(* database handle store (python_helpers/helpers/database.py) and of its   *)
(* lock files (python_helpers/helpers/lockfile.py).                        *)
(*                                                                         *)
(* The state machines of the module:                                       *)
(*   Spec           the database helper: in-memory handle maps, durable    *)
(*                  records and the driver.                                *)
(*   SpecCache      the connect_cached cache of the database helper.       *)
(*   SpecCapacity   the same cache with a ceiling the model reaches.       *)
(*   SpecAccessors  the operations that read a handle's state.             *)
(*   SpecRestore    _ensure_connection_available step by step, two         *)
(*                  threads interleaved.                                   *)
(*   SpecDaemon     the per-connection request handler of the daemon.      *)
(*   SpecConnection one connection from accept to close.                   *)
(*   SpecServer     the accept loop with its handler threads.              *)
(*   SpecValidator  the request validator called repeatedly.               *)
(*   SpecSanitizer  the validator on requests with nested parameters.      *)
(*   SpecResources  the resource manager's limit checks.                   *)
(*   SpecHealth     the health checker.                                    *)
(*   SpecLock       trylock and release on one lock file path, two callers *)
(*                  interleaved.                                           *)
(***************************************************************************)
EXTENDS Integers, Sequences, FiniteSets, TLC

(***************************************************************************)
(* Bounds of the model.                                                    *)
(***************************************************************************)
MaxConns == 2
MaxStmts == 1
MaxHandles == 2
MaxStoreConns == 1
MaxTime == 1810
TickStep == 901
MaxCacheTime == 800
CacheTickStep == 400
MaxFetches == 3

(***************************************************************************)
(* Program constants of helpers/database.py.                               *)
(***************************************************************************)
_CACHE_MAX_SIZE == 50
_CACHE_IDLE_TIMEOUT == 600
_CONNECTION_TIMEOUT == 1800

(***************************************************************************)
(* Inputs.                                                                 *)
(***************************************************************************)
DSNs == {"dbi:Oracle:PROD", "TEST"}
Users == {"u1"}
Passwords == {"pwA", "pwB"}
\* An options dict is a set of <<key, value>> pairs; {} is options=None.
OptionChoices == {{}, {<<"AutoCommit", FALSE>>}}
Queries == {"SELECT_PLAIN", "SELECT_PROBED"}

NoRow == 0
NoHandle == 0

\* The rows the database returns for a query, in the driver's order.
ResultSet(sql) ==
    IF sql = "SELECT_PLAIN" THEN <<11, 12>> ELSE <<21, 22>>

\* Whether cursor.description is still empty after cursor.execute(sql), so that
\* execute_statement has to pull a row to learn the result shape.
DescriptionNeedsRow(sql) == sql = "SELECT_PROBED"

ConnIds == 1..MaxConns
StmtIds == 1..MaxStmts

VARIABLES
    now,            \* time.time()
    dbPassword,     \* the password the database currently accepts
    driver,         \* driver[h]: state of the h-th opened oracledb connection
    _connections,   \* in-memory connection handles
    _statements,    \* in-memory statement handles
    _CONNECTION_CACHE,
    connFiles,      \* durable connection records ({id}.json)
    stmtFiles,      \* durable statement records (stmt_{id}.json)
    nextConn,       \* number of connection ids handed out (uuid4 is fresh)
    nextStmt,       \* number of statement ids handed out
    delivered,      \* delivered[s]: rows handed to the caller since the last execute
    history,        \* what the calls made so far did (statements, disconnects)
    lastResult      \* the dict returned by the last helper call

dbvars == <<now, dbPassword, driver, _connections, _statements, _CONNECTION_CACHE,
            connFiles, stmtFiles, nextConn, nextStmt, delivered, history, lastResult>>

VARIABLES
    cache_limit,    \* the value of _CACHE_MAX_SIZE in force
    restoring       \* restoring[t]: where thread t is in _ensure_connection_available

VARIABLES
    resource_manager,  \* ResourceManager: peaks, alert counters, checks made
    resource_status,   \* the dict check_resource_limits returned last
    health_history     \* HealthChecker.health_history

monitorvars == <<resource_manager, resource_status, health_history>>

VARIABLES
    lock_file,         \* the lock file: whether it exists, its mtime, its content
    LOCK_INSTANCES,    \* the lock instances of all callers, not yet released
    locking            \* locking[p]: where caller p is in trylock

lockvars == <<lock_file, LOCK_INSTANCES, locking>>

helpervars == <<cache_limit, restoring, monitorvars, lockvars>>

(***************************************************************************)
(* Dictionaries.                                                           *)
(***************************************************************************)
EmptyDict == [x \in {} |-> 0]
DictDel(f, k) == [x \in DOMAIN f \ {k} |-> f[x]]
DictPut(f, k, v) == [x \in DOMAIN f \cup {k} |-> IF x = k THEN v ELSE f[x]]
\* opts.get(key, default) on an options dict
OptGet(opts, key, default) ==
    IF \E p \in opts : p[1] = key
    THEN (CHOOSE p \in opts : p[1] = key)[2]
    ELSE default

\* The element of a one-element set.  A helper's statements run in program
\* order: The({ rest(x) : x \in {call} }) is "x = call; rest".
The(set) == CHOOSE x \in set : TRUE

(***************************************************************************)
(* The mutable store the helper functions work on.  Every helper below     *)
(* takes the store S as it stands when the helper is called and returns    *)
(* the store it leaves behind, so that a caller's statements compose in    *)
(* program order.                                                          *)
(***************************************************************************)
Store ==
    [connections |-> _connections, statements |-> _statements,
     cache |-> _CONNECTION_CACHE, connFiles |-> connFiles, stmtFiles |-> stmtFiles,
     driver |-> driver, nextConn |-> nextConn, nextStmt |-> nextStmt]

NoCursor == [h |-> NoHandle, pos |-> 0]
NoStmt == [connection_id |-> 0, sql |-> "", cursor |-> NoCursor, executed |-> FALSE,
           finished |-> FALSE, peeked_row |-> NoRow]
NoConnMeta == [dsn |-> "", username |-> "", password |-> "", autocommit |-> FALSE,
               raise_error |-> FALSE, print_error |-> FALSE, created_at |-> 0,
               last_used |-> 0]
NoStmtMeta == [connection_id |-> 0, sql |-> "", executed |-> FALSE, finished |-> FALSE,
               peeked_row |-> NoRow, created_at |-> 0, last_used |-> 0]

\* XOR with the fixed key, hex-encoded: the values the code computes for the
\* passwords of the model.
_simple_encrypt(text) ==
    CASE text = "pwA" -> "332700"
      [] text = "pwB" -> "332703"
      [] OTHER -> ""

_simple_decrypt(hex_text) ==
    CASE hex_text = "332700" -> "pwA"
      [] hex_text = "332703" -> "pwB"
      [] OTHER -> ""

\* The database identifier _make_cache_key takes from the parsed DSN:
\* "dbi:Oracle:<tns>" and a bare "<tns>" both parse to {'tns': <tns>}.
_parse_oracle_dsn(dsn) ==
    IF dsn = "dbi:Oracle:PROD" THEN "PROD" ELSE dsn

\* oracledb.connect: the database accepts the login or raises.
_connect_oracle(S, dsn, username, password) ==
    IF password = dbPassword
    THEN [S |-> [S EXCEPT !.driver = Append(@, "open")], conn |-> Len(S.driver) + 1]
    ELSE [S |-> S, conn |-> NoHandle]

\* conn.close(): closes an open connection
DriverClose(drv, h) ==
    IF h \in DOMAIN drv /\ drv[h] = "open" THEN [drv EXCEPT ![h] = "closed"] ELSE drv

Usable(drv, h) == h \in DOMAIN drv /\ drv[h] = "open"

_save_connection_metadata(S, connection_id, metadata, password) ==
    [S EXCEPT !.connFiles = DictPut(@, connection_id,
        [dsn |-> metadata.dsn, username |-> metadata.username,
         password |-> _simple_encrypt(password),
         autocommit |-> metadata.autocommit, raise_error |-> metadata.raise_error,
         print_error |-> metadata.print_error,
         created_at |-> now, last_used |-> now])]

\* A variant that reports an expired record as absent but leaves the file in
\* place; C9 does not hold of it.
_load_connection_metadata_keeping_expired(S, connection_id) ==
    IF connection_id \notin DOMAIN S.connFiles
    THEN [S |-> S, found |-> FALSE, md |-> NoConnMeta]
    ELSE IF now - S.connFiles[connection_id].created_at > _CONNECTION_TIMEOUT
    THEN [S |-> S, found |-> FALSE, md |-> NoConnMeta]
    ELSE LET md == [S.connFiles[connection_id] EXCEPT !.last_used = now]
         IN [S |-> [S EXCEPT !.connFiles[connection_id] = md], found |-> TRUE, md |-> md]

_load_connection_metadata(S, connection_id) ==
    IF connection_id \notin DOMAIN S.connFiles
    THEN [S |-> S, found |-> FALSE, md |-> NoConnMeta]
    ELSE IF now - S.connFiles[connection_id].created_at > _CONNECTION_TIMEOUT
    THEN [S |-> [S EXCEPT !.connFiles = DictDel(@, connection_id)],
          found |-> FALSE, md |-> NoConnMeta]
    ELSE LET md == [S.connFiles[connection_id] EXCEPT !.last_used = now]
         IN [S |-> [S EXCEPT !.connFiles[connection_id] = md], found |-> TRUE, md |-> md]

_remove_connection_metadata(S, connection_id) ==
    [S EXCEPT !.connFiles = DictDel(@, connection_id)]

_restore_connection_from_metadata(S, metadata) ==
    _connect_oracle(S, metadata.dsn, metadata.username,
                    _simple_decrypt(metadata.password))

_save_statement_metadata(S, statement_id, metadata) ==
    [S EXCEPT !.stmtFiles = DictPut(@, statement_id,
        [connection_id |-> metadata.connection_id, sql |-> metadata.sql,
         executed |-> metadata.executed, finished |-> metadata.finished,
         peeked_row |-> metadata.peeked_row,
         created_at |-> now, last_used |-> now])]

_load_statement_metadata(S, statement_id) ==
    IF statement_id \notin DOMAIN S.stmtFiles
    THEN [S |-> S, found |-> FALSE, md |-> NoStmtMeta]
    ELSE IF now - S.stmtFiles[statement_id].created_at > _CONNECTION_TIMEOUT
    THEN [S |-> [S EXCEPT !.stmtFiles = DictDel(@, statement_id)],
          found |-> FALSE, md |-> NoStmtMeta]
    ELSE LET md == [S.stmtFiles[statement_id] EXCEPT !.last_used = now]
         IN [S |-> [S EXCEPT !.stmtFiles[statement_id] = md], found |-> TRUE, md |-> md]

_remove_statement_metadata(S, statement_id) ==
    [S EXCEPT !.stmtFiles = DictDel(@, statement_id)]

\* The in-memory entry a restored connection gets.
RestoredConn(conn, md) ==
    [connection |-> conn, dsn |-> md.dsn, username |-> md.username,
     autocommit |-> md.autocommit, raise_error |-> md.raise_error,
     print_error |-> md.print_error]

_restore_statement_from_metadata(S, statement_metadata) ==
    LET connection_id == statement_metadata.connection_id
        restored_statement ==
            [connection_id |-> connection_id, sql |-> statement_metadata.sql,
             cursor |-> NoCursor, executed |-> FALSE, finished |-> FALSE,
             peeked_row |-> statement_metadata.peeked_row]
    IN IF connection_id \in DOMAIN S.connections
       THEN [S |-> S, found |-> TRUE, stmt |-> restored_statement]
       ELSE The({
            IF ~L.found
            THEN [S |-> L.S, found |-> FALSE, stmt |-> NoStmt]
            ELSE The({
                 IF R.conn = NoHandle
                 THEN [S |-> R.S, found |-> FALSE, stmt |-> NoStmt]
                 ELSE [S |-> [R.S EXCEPT !.connections =
                                  DictPut(@, connection_id, RestoredConn(R.conn, L.md))],
                       found |-> TRUE, stmt |-> restored_statement]
                 : R \in {_restore_connection_from_metadata(L.S, L.md)} })
            : L \in {_load_connection_metadata(S, connection_id)} })

\* The dict a helper returns, with the keys the model reads.
NoRet == [success |-> FALSE, error |-> "", connection_id |-> 0, statement_id |-> 0,
          row |-> NoRow, rows |-> <<>>, cached |-> FALSE]
Ok == [NoRet EXCEPT !.success = TRUE]
Err(msg) == [NoRet EXCEPT !.error = msg]

_ensure_connection_available(S, connection_id) ==
    IF connection_id \in DOMAIN S.connections
    THEN [S |-> S, ret |-> Ok]
    ELSE The({
         IF ~L.found
         THEN [S |-> L.S, ret |-> Err("Invalid connection ID")]
         ELSE The({
              IF R.conn = NoHandle
              THEN [S |-> _remove_connection_metadata(R.S, connection_id),
                    ret |-> Err("Failed to restore connection - credentials may have changed")]
              ELSE [S |-> [R.S EXCEPT !.connections =
                               DictPut(@, connection_id, RestoredConn(R.conn, L.md))],
                    ret |-> Ok]
              : R \in {_restore_connection_from_metadata(L.S, L.md)} })
         : L \in {_load_connection_metadata(S, connection_id)} })

(***************************************************************************)
(* The connection cache of connect_cached.                                 *)
(***************************************************************************)
_make_cache_key(dsn, username, options) ==
    <<_parse_oracle_dsn(dsn), username,
      IF OptGet(options, "AutoCommit", TRUE) THEN 1 ELSE 0,
      IF OptGet(options, "RaiseError", FALSE) THEN 1 ELSE 0,
      IF OptGet(options, "PrintError", TRUE) THEN 1 ELSE 0>>

\* A variant that only looks whether the connection object exists, without
\* running the probe query; C38 does not hold of it.
_is_connection_alive_unprobed(drv, conn) == conn \in DOMAIN drv

\* SELECT 1 FROM DUAL on the connection: any exception means dead.
_is_connection_alive(drv, conn) == Usable(drv, conn)

\* Close and forget the cache entries under `keys`, and their _connections entries.
RECURSIVE CloseAll(_, _)
CloseAll(drv, hs) ==
    IF hs = {} THEN drv
    ELSE LET h == CHOOSE x \in hs : TRUE
         IN CloseAll(DriverClose(drv, h), hs \ {h})

PurgeCacheKeys(S, keys) ==
    LET ids == {S.cache[k].connection_id : k \in keys}
    IN [S EXCEPT
          !.driver = CloseAll(@, {S.cache[k].connection : k \in keys}),
          !.cache = [k \in DOMAIN @ \ keys |-> @[k]],
          !.connections = [c \in DOMAIN @ \ ids |-> @[c]]]

\* The num_to_remove least recently used keys (sorted by last_used, oldest first).
RECURSIVE OldestKeys(_, _)
OldestKeys(cache, n) ==
    IF n = 0 \/ DOMAIN cache = {} THEN {}
    ELSE LET k == CHOOSE x \in DOMAIN cache :
                      \A y \in DOMAIN cache : cache[x].last_used <= cache[y].last_used
         IN {k} \cup OldestKeys([y \in DOMAIN cache \ {k} |-> cache[y]], n - 1)

_cleanup_stale_cache_entries(S) ==
    The({
    IF Cardinality(DOMAIN S1.cache) > cache_limit
    THEN PurgeCacheKeys(S1,
             OldestKeys(S1.cache, Cardinality(DOMAIN S1.cache) - cache_limit))
    ELSE S1
    : S1 \in {PurgeCacheKeys(S,
                 {k \in DOMAIN S.cache :
                     \/ now - S.cache[k].last_used > _CACHE_IDLE_TIMEOUT
                     \/ ~_is_connection_alive(S.driver, S.cache[k].connection)})} })

connect(S, dsn, username, password, options) ==
    The({
    IF C.conn = NoHandle
    THEN [S |-> S, ret |-> Err("ORA-01017: invalid username/password")]
    ELSE The({
         [S |-> _save_connection_metadata(
                    [C.S EXCEPT !.nextConn = connection_id,
                                !.connections =
                                    DictPut(@, connection_id, connection_metadata)],
                    connection_id, connection_metadata, password),
          ret |-> [Ok EXCEPT !.connection_id = connection_id]]
         : connection_metadata \in
             {[connection |-> C.conn, dsn |-> dsn, username |-> username,
               autocommit |-> OptGet(options, "AutoCommit", TRUE),
               raise_error |-> OptGet(options, "RaiseError", FALSE),
               print_error |-> OptGet(options, "PrintError", TRUE)]},
           connection_id \in {S.nextConn + 1} })
    : C \in {_connect_oracle(S, _parse_oracle_dsn(dsn), username, password)} })

\* A variant that answers from the cache only when the password given is the
\* one the database accepts; C6 does not hold of it.
connect_cached_checking_password(S, dsn, username, password, options) ==
    The({
    IF cache_key \in DOMAIN S1.cache
       /\ _is_connection_alive(S1.driver, S1.cache[cache_key].connection)
    THEN IF password # dbPassword
         THEN [S |-> S1, ret |-> Err("ORA-01017: invalid username/password")]
         ELSE [S |-> [S1 EXCEPT !.cache[cache_key].last_used = now],
               ret |-> [Ok EXCEPT !.connection_id = S1.cache[cache_key].connection_id,
                                  !.cached = TRUE]]
    ELSE The({
         IF ~R.ret.success
         THEN R
         ELSE [S |-> [R.S EXCEPT !.cache = DictPut(@, cache_key,
                          [connection_id |-> R.ret.connection_id,
                           connection |-> R.S.connections[R.ret.connection_id].connection,
                           created_at |-> now, last_used |-> now,
                           dsn |-> dsn, username |-> username, options |-> options])],
               ret |-> R.ret]
         : R \in {connect(IF cache_key \in DOMAIN S1.cache
                          THEN PurgeCacheKeys(S1, {cache_key}) ELSE S1,
                          dsn, username, password, options)} })
    : S1 \in {_cleanup_stale_cache_entries(S)},
      cache_key \in {_make_cache_key(dsn, username, options)} })

\* A variant whose cache hit leaves the entry's last-used time alone; C7 does
\* not hold of it.
connect_cached_without_refresh(S, dsn, username, password, options) ==
    The({
    IF cache_key \in DOMAIN S1.cache
       /\ _is_connection_alive(S1.driver, S1.cache[cache_key].connection)
    THEN [S |-> S1,
          ret |-> [Ok EXCEPT !.connection_id = S1.cache[cache_key].connection_id,
                             !.cached = TRUE]]
    ELSE The({
         IF ~R.ret.success
         THEN R
         ELSE [S |-> [R.S EXCEPT !.cache = DictPut(@, cache_key,
                          [connection_id |-> R.ret.connection_id,
                           connection |-> R.S.connections[R.ret.connection_id].connection,
                           created_at |-> now, last_used |-> now,
                           dsn |-> dsn, username |-> username, options |-> options])],
               ret |-> R.ret]
         : R \in {connect(IF cache_key \in DOMAIN S1.cache
                          THEN PurgeCacheKeys(S1, {cache_key}) ELSE S1,
                          dsn, username, password, options)} })
    : S1 \in {_cleanup_stale_cache_entries(S)},
      cache_key \in {_make_cache_key(dsn, username, options)} })

connect_cached(S, dsn, username, password, options) ==
    The({
    IF cache_key \in DOMAIN S1.cache
       /\ _is_connection_alive(S1.driver, S1.cache[cache_key].connection)
    THEN [S |-> [S1 EXCEPT !.cache[cache_key].last_used = now],
          ret |-> [Ok EXCEPT !.connection_id = S1.cache[cache_key].connection_id,
                             !.cached = TRUE]]
    ELSE The({
         IF ~R.ret.success
         THEN R
         ELSE [S |-> [R.S EXCEPT !.cache = DictPut(@, cache_key,
                          [connection_id |-> R.ret.connection_id,
                           connection |-> R.S.connections[R.ret.connection_id].connection,
                           created_at |-> now, last_used |-> now,
                           dsn |-> dsn, username |-> username, options |-> options])],
               ret |-> R.ret]
         \* a dead entry is dropped before falling through to connect
         : R \in {connect(IF cache_key \in DOMAIN S1.cache
                          THEN PurgeCacheKeys(S1, {cache_key}) ELSE S1,
                          dsn, username, password, options)} })
    : S1 \in {_cleanup_stale_cache_entries(S)},
      cache_key \in {_make_cache_key(dsn, username, options)} })

(***************************************************************************)
(* Statements.                                                             *)
(***************************************************************************)
prepare(S, connection_id, sql) ==
    The({
    IF ~E.ret.success
    THEN E
    ELSE The({
         [S |-> _save_statement_metadata(
                    [E.S EXCEPT !.nextStmt = statement_id,
                                !.statements =
                                    DictPut(@, statement_id, statement_metadata)],
                    statement_id, statement_metadata),
          ret |-> [Ok EXCEPT !.statement_id = statement_id]]
         : statement_metadata \in
             {[connection_id |-> connection_id, sql |-> sql, cursor |-> NoCursor,
               executed |-> FALSE, finished |-> FALSE, peeked_row |-> NoRow]},
           statement_id \in {E.S.nextStmt + 1} })
    : E \in {_ensure_connection_available(S, connection_id)} })

\* Lines 1050-1076 of execute_statement, and the first half of fetch_row and
\* fetch_all: bring the statement into _statements or fail.
LookupStatement(S, statement_id) ==
    IF statement_id \in DOMAIN S.statements
    THEN [S |-> S, ret |-> Ok, restored |-> FALSE]
    ELSE The({
         IF ~L.found
         THEN [S |-> L.S, ret |-> Err("Invalid statement ID"), restored |-> FALSE]
         ELSE The({
              IF ~R.found
              THEN [S |-> _remove_statement_metadata(R.S, statement_id),
                    ret |-> Err("Failed to restore statement - connection may have expired"),
                    restored |-> FALSE]
              ELSE [S |-> [R.S EXCEPT !.statements = DictPut(@, statement_id, R.stmt)],
                    ret |-> Ok, restored |-> TRUE]
              : R \in {_restore_statement_from_metadata(L.S, L.md)} })
         : L \in {_load_statement_metadata(S, statement_id)} })

\* Lines 1078-1201 of execute_statement: run the SQL on a new cursor of the
\* connection `conn`, probe for the result shape, save the durable record.
RunStatement(S, statement_id, conn, stmt_info) ==
    IF ~Usable(S.driver, conn)
    THEN \* conn.cursor() raises
         [S |-> S, ret |-> Err("DPY-1001: not connected to database")]
    ELSE The({
         [S |-> _save_statement_metadata(
                    [S EXCEPT !.statements[statement_id] = executed_info],
                    statement_id, executed_info),
          ret |-> Ok]
         : executed_info \in
             {IF DescriptionNeedsRow(stmt_info.sql) /\ Len(ResultSet(stmt_info.sql)) > 0
              THEN [stmt_info EXCEPT !.cursor = [h |-> conn, pos |-> 1],
                                     !.executed = TRUE,
                                     !.peeked_row = ResultSet(stmt_info.sql)[1]]
              ELSE [stmt_info EXCEPT !.cursor = [h |-> conn, pos |-> 0],
                                     !.executed = TRUE]} })

execute_statement(S, connection_id, statement_id) ==
    The({
    IF ~E.ret.success
    THEN [S |-> E.S, ret |-> E.ret]
    ELSE The({
         IF ~L.ret.success
         THEN [S |-> L.S, ret |-> L.ret]
         ELSE RunStatement(L.S, statement_id,
                           L.S.connections[connection_id].connection,
                           L.S.statements[statement_id])
         : L \in {LookupStatement(E.S, statement_id)} })
    : E \in {_ensure_connection_available(S, connection_id)} })

\* Lines 1245-1285 of fetch_row (1359-1391 of fetch_all): a statement that
\* was just restored is executed again on a fresh cursor.
ReExecute(S, statement_id) ==
    IF S.statements[statement_id].connection_id \notin DOMAIN S.connections
    THEN [S |-> S, ret |-> Err("Connection lost during statement restoration")]
    ELSE The({
         IF ~Usable(S.driver, conn)
         THEN [S |-> S, ret |-> Err("Failed to re-execute restored statement")]
         ELSE [S |-> [S EXCEPT !.statements[statement_id].cursor = [h |-> conn, pos |-> 0],
                               !.statements[statement_id].executed = TRUE],
               ret |-> Ok]
         : conn \in {S.connections[S.statements[statement_id].connection_id].connection} })

\* cursor.fetchone(): the next row, or NoRow at the end of the result set.
FetchOne(drv, sql, cursor) ==
    IF Usable(drv, cursor.h) /\ cursor.pos < Len(ResultSet(sql))
    THEN ResultSet(sql)[cursor.pos + 1]
    ELSE NoRow

\* Lines 1287-1322 of fetch_row: the checks on the statement and the delivery
\* of one row.
DeliverRow(S, statement_id, stmt_info) ==
    IF ~stmt_info.executed
    THEN [S |-> S, ret |-> Err("Statement not executed")]
    ELSE IF stmt_info.finished
    THEN [S |-> S, ret |-> NoRet]
    ELSE IF stmt_info.peeked_row # NoRow
    THEN [S |-> [S EXCEPT !.statements[statement_id].peeked_row = NoRow],
          ret |-> [Ok EXCEPT !.row = stmt_info.peeked_row]]
    ELSE The({
         IF row = NoRow
         THEN [S |-> [S EXCEPT !.statements[statement_id].finished = TRUE],
               ret |-> NoRet]
         ELSE [S |-> [S EXCEPT !.statements[statement_id].cursor.pos = @ + 1],
               ret |-> [Ok EXCEPT !.row = row]]
         : row \in {FetchOne(S.driver, stmt_info.sql, stmt_info.cursor)} })

\* Lines 1393-1412 of fetch_all: the rest of the cursor.
DeliverAll(S, statement_id, stmt_info) ==
    IF ~stmt_info.executed
    THEN [S |-> S, ret |-> Err("Statement not executed")]
    ELSE IF ~Usable(S.driver, stmt_info.cursor.h)
    THEN [S |-> S, ret |-> Err("DPY-1001: not connected to database")]
    ELSE [S |-> [S EXCEPT !.statements[statement_id].cursor.pos =
                              Len(ResultSet(stmt_info.sql)),
                          !.statements[statement_id].finished = TRUE],
          ret |-> [Ok EXCEPT !.rows = SubSeq(ResultSet(stmt_info.sql),
                                             stmt_info.cursor.pos + 1,
                                             Len(ResultSet(stmt_info.sql)))]]

\* The reply of a fetch together with whether the call restored the statement.
WithRestored(R, restored) == [S |-> R.S, ret |-> R.ret, restored |-> restored]

fetch_row(S, statement_id) ==
    The({
    IF ~L.ret.success
    THEN L
    ELSE The({
         IF ~X.ret.success
         THEN WithRestored(X, L.restored)
         ELSE The({ WithRestored(D, L.restored)
                    : D \in {DeliverRow(X.S, statement_id, X.S.statements[statement_id])} })
         : X \in {IF L.restored THEN ReExecute(L.S, statement_id)
                  ELSE [S |-> L.S, ret |-> Ok]} })
    : L \in {LookupStatement(S, statement_id)} })

fetch_all(S, statement_id) ==
    The({
    IF ~L.ret.success
    THEN L
    ELSE The({
         IF ~X.ret.success
         THEN WithRestored(X, L.restored)
         ELSE The({ WithRestored(D, L.restored)
                    : D \in {DeliverAll(X.S, statement_id, X.S.statements[statement_id])} })
         : X \in {IF L.restored THEN ReExecute(L.S, statement_id)
                  ELSE [S |-> L.S, ret |-> Ok]} })
    : L \in {LookupStatement(S, statement_id)} })

\* conn.close() raises on a connection that is not open.
disconnect(S, connection_id) ==
    IF connection_id \in DOMAIN S.connections
       /\ ~Usable(S.driver, S.connections[connection_id].connection)
    THEN [S |-> S, ret |-> Err("DPY-1001: not connected to database")]
    ELSE The({
         [S |-> _remove_connection_metadata(
                    [S EXCEPT
                       !.driver = IF connection_id \in DOMAIN S.connections
                                  THEN DriverClose(@, S.connections[connection_id].connection)
                                  ELSE @,
                       !.connections = DictDel(@, connection_id),
                       !.statements = [sid \in DOMAIN @ \ statements_to_remove |-> @[sid]],
                       !.stmtFiles = [sid \in DOMAIN @ \ statements_to_remove |-> @[sid]]],
                    connection_id),
          ret |-> Ok]
         : statements_to_remove \in
             {{sid \in DOMAIN S.statements :
                  S.statements[sid].connection_id = connection_id}} })

finish_statement(S, statement_id) ==
    [S |-> [S EXCEPT !.statements = DictDel(@, statement_id)], ret |-> Ok]

commit(S, connection_id) ==
    The({
    IF ~E.ret.success THEN E
    ELSE IF ~Usable(E.S.driver, E.S.connections[connection_id].connection)
    THEN [S |-> E.S, ret |-> Err("DPY-1001: not connected to database")]
    ELSE [S |-> E.S, ret |-> Ok]
    : E \in {_ensure_connection_available(S, connection_id)} })

\* Lines 1680-1739.  The statements of the model bind no OUT parameters, so
\* the values returned are none.
get_out_params(S, statement_id) ==
    IF statement_id \notin DOMAIN S.statements
    THEN [S |-> S, ret |-> Err("Invalid statement ID: {statement_id}")]
    ELSE IF ~S.statements[statement_id].executed
    THEN [S |-> S, ret |-> Err("Statement not yet executed")]
    ELSE [S |-> S, ret |-> Ok]

\* Lines 1741-1775: the errstr of a connection handle.
get_connection_error(S, connection_id) ==
    IF connection_id \notin DOMAIN S.connections
    THEN [S |-> S, ret |-> Err("Invalid connection ID: {connection_id}")]
    ELSE [S |-> S, ret |-> Ok]

\* Lines 1777-1811: the errstr of a statement handle.
get_statement_error(S, statement_id) ==
    IF statement_id \notin DOMAIN S.statements
    THEN [S |-> S, ret |-> Err("Invalid statement ID: {statement_id}")]
    ELSE [S |-> S, ret |-> Ok]

(***************************************************************************)
(* The daemon (cpan_daemon.py): request validation.                        *)
(*                                                                         *)
(* A parsed request is a dict from JSON keys to strings.  Names are TLA+   *)
(* strings; the checks the code makes on their characters (the schema      *)
(* pattern, the dangerous-name screen, the removal of control characters)  *)
(* are made on their spellings.                                            *)
(***************************************************************************)
MAX_PARAM_COUNT == 100

\* The characters of the strings of the model; "LF" is the line feed.
Spelling(name) ==
    CASE name = "test" -> <<"t","e","s","t">>
      [] name = "system" -> <<"s","y","s","t","e","m">>
      [] name = "database" -> <<"d","a","t","a","b","a","s","e">>
      [] name = "http" -> <<"h","t","t","p">>
      [] name = "sftp" -> <<"s","f","t","p">>
      [] name = "shell" -> <<"s","h","e","l","l">>
      [] name = "ping" -> <<"p","i","n","g">>
      [] name = "ping+LF" -> <<"p","i","n","g","LF">>
      [] name = "echo" -> <<"e","c","h","o">>
      [] name = "info" -> <<"i","n","f","o">>
      [] name = "shutdown" -> <<"s","h","u","t","d","o","w","n">>
      [] name = "reboot" -> <<"r","e","b","o","o","t">>
      [] name = "Eval" -> <<"E","v","a","l">>
      [] name = "connect" -> <<"c","o","n","n","e","c","t">>
      [] name = "drop" -> <<"d","r","o","p">>
      [] name = "post" -> <<"p","o","s","t">>
      [] name = "run" -> <<"r","u","n">>
      [] name = "health" -> <<"h","e","a","l","t","h">>
      [] name = "stats" -> <<"s","t","a","t","s">>
      [] name = "performance" -> <<"p","e","r","f","o","r","m","a","n","c","e">>
      [] name = "connections" -> <<"c","o","n","n","e","c","t","i","o","n","s">>
      [] name = "cleanup" -> <<"c","l","e","a","n","u","p">>
      [] name = "metrics" -> <<"m","e","t","r","i","c","s">>
      [] name = "eval" -> <<"e","v","a","l">>
      [] name = "exec" -> <<"e","x","e","c">>
      [] name = "compile" -> <<"c","o","m","p","i","l","e">>
      [] name = "__import__" -> <<"_","_","i","m","p","o","r","t","_","_">>
      [] name = "open" -> <<"o","p","e","n">>
      [] name = "file" -> <<"f","i","l","e">>
      [] name = "subprocess" -> <<"s","u","b","p","r","o","c","e","s","s">>
      [] name = "os" -> <<"o","s">>
      [] name = "sys" -> <<"s","y","s">>
      [] name = "globals" -> <<"g","l","o","b","a","l","s">>
      [] name = "locals" -> <<"l","o","c","a","l","s">>
      [] name = "vars" -> <<"v","a","r","s">>
      [] name = "input" -> <<"i","n","p","u","t">>
      [] name = "raw_input" -> <<"r","a","w","_","i","n","p","u","t">>
      [] name = "execfile" -> <<"e","x","e","c","f","i","l","e">>
      [] name = "reload" -> <<"r","e","l","o","a","d">>
      [] OTHER -> <<>>

\* The module and function names a client of the model sends.
ModuleNames == {"test", "system", "database", "http", "sftp", "shell"}
FunctionNames == {"ping", "ping+LF", "echo", "info", "shutdown", "reboot", "connect",
                  "drop", "Eval", "post", "run", "health", "stats", "performance",
                  "connections", "cleanup", "metrics"}

\* The string with the given characters.
NameOf(chars) == CHOOSE n \in ModuleNames \cup FunctionNames : Spelling(n) = chars

LowerCase == <<"a","b","c","d","e","f","g","h","i","j","k","l","m",
               "n","o","p","q","r","s","t","u","v","w","x","y","z">>
UpperCase == <<"A","B","C","D","E","F","G","H","I","J","K","L","M",
               "N","O","P","Q","R","S","T","U","V","W","X","Y","Z">>
Digits == {"0","1","2","3","4","5","6","7","8","9"}
Letters == {LowerCase[i] : i \in 1..26} \cup {UpperCase[i] : i \in 1..26}
ControlChars == {"LF"}

\* str.lower()
Lower(chars) ==
    [i \in 1..Len(chars) |->
        IF \E k \in 1..26 : UpperCase[k] = chars[i]
        THEN LowerCase[CHOOSE k \in 1..26 : UpperCase[k] = chars[i]]
        ELSE chars[i]]

\* needle in hay
Contains(hay, needle) ==
    \E i \in 0..(Len(hay) - Len(needle)) : SubSeq(hay, i + 1, i + Len(needle)) = needle

\* re.match("^[a-zA-Z][a-zA-Z0-9_]*$", s): "$" also matches just before a
\* line feed that ends the string.
MatchesNamePattern(chars) ==
    \E body \in {IF Len(chars) > 0 /\ chars[Len(chars)] = "LF"
                 THEN SubSeq(chars, 1, Len(chars) - 1) ELSE chars} :
       /\ Len(body) > 0
       /\ body[1] \in Letters
       /\ \A i \in 2..Len(body) : body[i] \in Letters \cup Digits \cup {"_"}

\* dict.get(key, default)
Get(d, key, default) == IF key \in DOMAIN d THEN d[key] ELSE default

module_whitelist ==
    [database |-> {"connect", "disconnect", "execute_statement", "fetch_row", "fetch_all",
                   "prepare", "finish_statement", "begin_transaction", "commit",
                   "rollback"},
     xml_helper |-> {"xml_in", "xml_out", "escape_xml", "unescape_xml"},
     xpath |-> {"new", "find", "findnodes", "findvalue", "exists"},
     http |-> {"lwp_request", "get", "post", "put", "delete", "head"},
     datetime_helper |-> {"format_date", "parse_date", "add_days", "diff_days", "now"},
     crypto |-> {"encrypt", "decrypt", "hash", "generate_key", "sign", "verify"},
     email_helper |-> {"send_email", "send_html_email", "validate_email"},
     logging_helper |-> {"log_message", "log_error", "log_warning", "log_debug"},
     excel |-> {"create_workbook", "add_worksheet", "write_cell", "save_workbook"},
     sftp |-> {"connect", "put", "get", "delete", "list_files", "disconnect"},
     test |-> {"ping", "health", "stats", "echo"},
     system |-> {"info", "shutdown", "health", "stats", "performance", "connections",
                 "cleanup", "metrics"}]

dangerous_functions ==
    <<"eval", "exec", "compile", "__import__", "open", "file", "subprocess", "os", "sys",
      "globals", "locals", "vars", "input", "raw_input", "execfile", "reload">>

exempt_modules ==
    {"system", "test", "file_helper", "db_helper", "email_helper", "xml_helper",
     "json_helper", "string_helper", "date_helper", "datetime_helper", "http_helper",
     "sftp_helper", "logging_helper", "excel_helper", "crypto_helper", "xpath_helper"}

\* The keys the request schema knows (additionalProperties is False).
SchemaProperties ==
    {"module", "function", "params", "timestamp", "request_id", "perl_caller",
     "client_version"}

\* The calls of validate_request made so far: the request and the result of
\* each, in order.
VARIABLE validations

suspicious_strings ==
    <<"DROP TABLE", "DELETE FROM", "UPDATE SET", "INSERT INTO", "UNION SELECT",
      "OR 1=1", "AND 1=1", "' OR '", "\" OR \"", "--", "/*", "*/", "xp_", "sp_",
      "ALTER TABLE">>

\* ValidationResult()
NewResult == [is_valid |-> TRUE, errors |-> <<>>, warnings |-> <<>>,
              security_events |-> 0, sanitized_request |-> {}]
Invalid(result, error) ==
    [result EXCEPT !.is_valid = FALSE, !.errors = Append(@, error)]
InvalidEvent(result, error) ==
    [result EXCEPT !.is_valid = FALSE, !.errors = Append(@, error),
                   !.security_events = @ + 1]

_validate_structure(request, result) ==
    The({
    The({
    IF Cardinality(DOMAIN request) > MAX_PARAM_COUNT
    THEN Invalid(r2, "Too many parameters") ELSE r2
    : r2 \in {IF "function" \notin DOMAIN request
              THEN Invalid(r1, "Missing required field: function") ELSE r1} })
    : r1 \in {IF "module" \notin DOMAIN request
              THEN Invalid(result, "Missing required field: module") ELSE result} })

\* _validate_against_schema on one string property of the request
ValidateNameProperty(request, prop, result) ==
    IF prop \in DOMAIN request /\ ~MatchesNamePattern(Spelling(request[prop]))
    THEN Invalid(result, "String pattern mismatch") ELSE result

\* The "system" schema replaces the module property by an enum, which a module
\* that selected that schema always satisfies; the default schema keeps the
\* pattern.
_validate_schema(request, result) ==
    The({
    The({
    The({
    IF DOMAIN request \subseteq SchemaProperties
    THEN r3 ELSE Invalid(r3, "Additional property not allowed")
    : r3 \in {ValidateNameProperty(request, "function", r2)} })
    : r2 \in {IF Get(request, "module", "") \in {"system", "test"}
              THEN r1 ELSE ValidateNameProperty(request, "module", r1)} })
    : r1 \in {IF {"module", "function"} \subseteq DOMAIN request
              THEN result ELSE Invalid(result, "Missing required property")} })

\* re.search of the injection patterns in json.dumps(request): of the values
\* of the model only "<script>" matches one.
InjectionAttempt(request) == \E k \in DOMAIN request : request[k] = "<script>"

\* The dangerous names that occur in the function or the module name, in the
\* order of the list.
DangerousIn(module_name, function_name) ==
    SelectSeq(dangerous_functions,
              LAMBDA dangerous :
                 \/ Contains(Lower(Spelling(function_name)), Spelling(dangerous))
                 \/ Contains(Lower(Spelling(module_name)), Spelling(dangerous)))

\* The suspicious strings that occur in json.dumps(request).lower(), in the
\* order of the list: of the values of the model only "DROP TABLE users; --"
\* holds any.
SuspiciousIn(request) ==
    SelectSeq(suspicious_strings,
              LAMBDA pattern :
                 /\ pattern \in {"DROP TABLE", "--"}
                 /\ \E k \in DOMAIN request : request[k] = "DROP TABLE users; --")

\* One error and one security event for every dangerous name found, one
\* warning and one security event for every suspicious string found.
_validate_security(request, result) ==
    The({
    The({
    The({
    [r2 EXCEPT !.warnings = @ \o suspicious,
               !.security_events = @ + Len(suspicious)]
    : suspicious \in {SuspiciousIn(request)},
      r2 \in {
    IF Get(request, "module", "") \in exempt_modules \/ found = <<>>
    THEN r1
    ELSE [r1 EXCEPT !.is_valid = FALSE,
                    !.errors = @ \o found,
                    !.security_events = @ + Len(found)]} })
    : found \in {DangerousIn(Get(request, "module", ""), Get(request, "function", ""))} })
    : r1 \in {IF InjectionAttempt(request)
              THEN InvalidEvent(result, "Potential injection attack detected")
              ELSE result} })

\* re.sub(r'[\x00-\x1f\x7f-\x9f]', '', value)
IsPrintable(ch) == ch \notin ControlChars
_sanitize_value(chars) == SelectSeq(chars, IsPrintable)

MAX_STRING_LENGTH == 10000
MAX_ARRAY_LENGTH == 1000
MAX_OBJECT_DEPTH == 10

\* A JSON value under 'params': a string (its characters), or a dict or a
\* list (its items).  Nest builds the value with `depth` containers of one
\* item around a string.
RECURSIVE Nest(_, _, _)
Nest(shape, depth, leaf) ==
    IF depth = 0
    THEN [type |-> "str", chars |-> leaf, items |-> <<>>]
    ELSE [type |-> shape, chars |-> <<>>,
          items |-> IF shape = "dict"
                    THEN [k \in {"k"} |-> Nest(shape, depth - 1, leaf)]
                    ELSE <<Nest(shape, depth - 1, leaf)>>]

\* The structured params the model sends, by the name that stands for them in
\* a request.
ParamsTable ==
    {[token |-> "dict_shallow", shape |-> "dict", depth |-> 1, leaf |-> <<"x">>],
     [token |-> "dict_shallow_lf", shape |-> "dict", depth |-> 1, leaf |-> <<"x", "LF">>],
     [token |-> "dict_at_bound", shape |-> "dict", depth |-> MAX_OBJECT_DEPTH,
      leaf |-> <<"x">>],
     [token |-> "dict_at_bound_lf", shape |-> "dict", depth |-> MAX_OBJECT_DEPTH,
      leaf |-> <<"x", "LF">>],
     [token |-> "dict_over_bound", shape |-> "dict", depth |-> MAX_OBJECT_DEPTH + 1,
      leaf |-> <<"x">>],
     [token |-> "dict_over_bound_lf", shape |-> "dict", depth |-> MAX_OBJECT_DEPTH + 1,
      leaf |-> <<"x", "LF">>],
     [token |-> "list_shallow", shape |-> "list", depth |-> 1, leaf |-> <<"x">>],
     [token |-> "list_shallow_lf", shape |-> "list", depth |-> 1, leaf |-> <<"x", "LF">>],
     [token |-> "list_at_bound", shape |-> "list", depth |-> MAX_OBJECT_DEPTH,
      leaf |-> <<"x">>],
     [token |-> "list_at_bound_lf", shape |-> "list", depth |-> MAX_OBJECT_DEPTH,
      leaf |-> <<"x", "LF">>],
     [token |-> "list_over_bound", shape |-> "list", depth |-> MAX_OBJECT_DEPTH + 1,
      leaf |-> <<"x">>],
     [token |-> "list_over_bound_lf", shape |-> "list", depth |-> MAX_OBJECT_DEPTH + 1,
      leaf |-> <<"x", "LF">>]}

StructuredParams == {e.token : e \in ParamsTable}

Json(token) ==
    The({Nest(e.shape, e.depth, e.leaf) : e \in {x \in ParamsTable : x.token = token}})

\* The name of a structured value.
ParamsOf(value) ==
    IF \E token \in StructuredParams : Json(token) = value
    THEN CHOOSE token \in StructuredParams : Json(token) = value
    ELSE "unnamed"

\* The number of containers around the innermost value.
RECURSIVE ObjectDepth(_)
ObjectDepth(value) ==
    IF value.type = "str" \/ DOMAIN value.items = {}
    THEN IF value.type = "str" THEN 0 ELSE 1
    ELSE 1 + ObjectDepth(value.items[CHOOSE k \in DOMAIN value.items :
                \A j \in DOMAIN value.items :
                   ObjectDepth(value.items[j]) <= ObjectDepth(value.items[k])])

\* Lines 436-459: _sanitize_value on a string, a dict or a list.
RECURSIVE _sanitize_json(_)
_sanitize_json(value) ==
    IF value.type = "str"
    THEN [value EXCEPT !.chars =
             _sanitize_value(IF Len(value.chars) > MAX_STRING_LENGTH
                             THEN SubSeq(value.chars, 1, MAX_STRING_LENGTH)
                             ELSE value.chars)]
    ELSE IF value.type = "dict"
    THEN [value EXCEPT !.items =
             [k \in DOMAIN value.items |-> _sanitize_json(value.items[k])]]
    ELSE [value EXCEPT !.items =
             [i \in 1..(IF Len(value.items) > MAX_ARRAY_LENGTH
                        THEN MAX_ARRAY_LENGTH ELSE Len(value.items)) |->
                 _sanitize_json(value.items[i])]]

_sanitize_request(request) ==
    [key \in DOMAIN request |->
        IF key \in {"module", "function"}
        THEN NameOf(_sanitize_value(Spelling(request[key])))
        ELSE IF request[key] \in StructuredParams
        THEN ParamsOf(_sanitize_json(Json(request[key])))
        ELSE request[key]]

\* A variant that looks the sanitized names up instead of the names received;
\* C5 does not hold of it.
_validate_whitelist_of_sanitized(request, result) ==
    IF \A sanitized \in result.sanitized_request :
          /\ Get(sanitized, "module", "") \in DOMAIN module_whitelist
          /\ Get(sanitized, "function", "")
                \in module_whitelist[Get(sanitized, "module", "")]
    THEN result
    ELSE InvalidEvent(result, "Function not allowed")

_validate_whitelist(request, result) ==
    IF Get(request, "module", "") \notin DOMAIN module_whitelist
    THEN InvalidEvent(result, "Module not allowed")
    ELSE IF Get(request, "function", "") \notin module_whitelist[Get(request, "module", "")]
    THEN InvalidEvent(result, "Function not allowed")
    ELSE result

\* A variant that remembers the requests it has seen and rejects a repeated
\* one; C16 does not hold of it.
validate_request_remembering(request) ==
    The({
    IF \E i \in 1..Len(validations) : validations[i].request = request
    THEN [r5 EXCEPT !.is_valid = FALSE, !.errors = Append(r5.errors, "Duplicate request")]
    ELSE r5
    : r5 \in {
             The({
             The({
             The({
             The({
             IF r4.is_valid THEN _validate_whitelist(request, r4) ELSE r4
             : r4 \in {IF r3.is_valid
                       THEN [r3 EXCEPT !.sanitized_request = {_sanitize_request(request)}]
                       ELSE r3} })
             : r3 \in {IF r2.is_valid THEN _validate_security(request, r2) ELSE r2} })
             : r2 \in {IF r1.is_valid THEN _validate_schema(request, r1) ELSE r1} })
             : r1 \in {_validate_structure(request, NewResult)} })
         } })

\* Each step runs only while the result is still valid.
validate_request(request) ==
    The({
    The({
    The({
    The({
    IF r4.is_valid THEN _validate_whitelist(request, r4) ELSE r4
    : r4 \in {IF r3.is_valid
              THEN [r3 EXCEPT !.sanitized_request = {_sanitize_request(request)}]
              ELSE r3} })
    : r3 \in {IF r2.is_valid THEN _validate_security(request, r2) ELSE r2} })
    : r2 \in {IF r1.is_valid THEN _validate_schema(request, r1) ELSE r1} })
    : r1 \in {_validate_structure(request, NewResult)} })

(***************************************************************************)
(* The daemon: routing.                                                    *)
(***************************************************************************)
\* The modules _load_helper_modules imports.
helper_modules ==
    {"database", "xml_helper", "xpath", "http", "datetime_helper", "crypto",
     "email_helper", "logging_helper", "excel", "sftp", "test"}

\* hasattr(module, function_name) for the helper modules of the model's requests.
ModuleFunctions ==
    [database |-> {"connect", "connect_cached", "prepare", "execute_statement",
                   "fetch_row", "fetch_all", "execute_immediate", "do_statement",
                   "begin_transaction", "commit", "rollback", "disconnect",
                   "finish_statement", "bind_param_inout", "get_out_params",
                   "get_connection_error", "get_statement_error"},
     sftp |-> {"new", "put", "ls", "rename", "setcwd", "cwd", "error", "disconnect",
               "get", "mkdir", "remove"}]
HasAttr(module_name, function_name) ==
    module_name \in DOMAIN ModuleFunctions /\ function_name \in ModuleFunctions[module_name]

\* What a helper function called with the request's params does: it returns
\* its result, it catches its own exception and returns a failure dict (the
\* except clause of database.connect), or the call raises.
HandlerOutcomes == {"returns", "fails", "raises"}

\* A handler result as the envelope carries it: its keys, and the values the
\* properties look at.
NoResult == [keys |-> {}, success |-> TRUE, message |-> ""]

\* What the inline handlers put under 'result'.
InlineResult(module_name, function_name) ==
    CASE module_name = "test" /\ function_name = "ping" ->
            [keys |-> {"message", "daemon_version", "python_version", "platform",
                       "uptime", "stats", "input"},
             success |-> TRUE, message |-> "pong"]
      [] module_name = "system" /\ function_name = "shutdown" ->
            [keys |-> {"message"}, success |-> TRUE, message |-> "Shutdown initiated"]
      [] OTHER ->
            [keys |-> {"report"}, success |-> TRUE, message |-> ""]

\* What database.connect returns: lines 732-737 and 739-744.
HelperResult(outcome) ==
    IF outcome = "fails"
    THEN [keys |-> {"success", "error", "traceback"}, success |-> FALSE, message |-> ""]
    ELSE [keys |-> {"success", "connection_id", "db_type", "auth_mode"},
          success |-> TRUE, message |-> ""]

\* A variant that reports where the error happened and drops what it said;
\* C13 does not hold of it.
WrapErrorWithoutMessage(module_name, function_name, message) ==
    <<"Error in ", module_name, ".", function_name>>

\* The text of the RuntimeError that wraps what a helper call raised.
WrapError(module_name, function_name, message) ==
    <<"Error in ", module_name, ".", function_name, ": ">> \o message

\* What a call of _route_request did: which handler code ran, whether it
\* returned a response or raised, and whether it cleared the running flag.
NoRun == [kind |-> "none", module |-> "", function |-> "", raised |-> FALSE,
          message |-> <<>>]
Returned(kind, module_name, function_name, keys, result) ==
    [ran |-> [kind |-> kind, module |-> module_name, function |-> function_name,
              raised |-> FALSE, message |-> <<>>],
     raised |-> FALSE, error_type |-> "", error |-> <<>>,
     shutdown |-> module_name = "system" /\ function_name = "shutdown",
     keys |-> keys, result |-> result]
Raised(kind, module_name, function_name, error_type, error, message) ==
    [ran |-> IF kind = "none" THEN NoRun
             ELSE [kind |-> kind, module |-> module_name, function |-> function_name,
                   raised |-> TRUE, message |-> message],
     raised |-> TRUE, error_type |-> error_type, error |-> error,
     shutdown |-> FALSE, keys |-> {}, result |-> NoResult]

_handle_test_request(function_name) ==
    IF function_name \in {"ping", "stats"}
    THEN Returned("inline", "test", function_name, {"success", "result"},
                  InlineResult("test", function_name))
    ELSE Raised("inline", "test", function_name, "ValueError",
                <<"Unknown test function: ", function_name>>,
                <<"Unknown test function: ", function_name>>)

_handle_system_request(function_name) ==
    IF function_name \in {"info", "shutdown", "health", "performance", "connections",
                          "cleanup", "metrics", "stats"}
    THEN Returned("inline", "system", function_name, {"success", "result"},
                  InlineResult("system", function_name))
    ELSE Raised("inline", "system", function_name, "ValueError",
                <<"Unknown system function: ", function_name>>,
                <<"Unknown system function: ", function_name>>)

\* outcome: what the helper function called does.
_route_request(request, outcome) ==
    The({
    IF module_name = "test" THEN _handle_test_request(function_name)
    ELSE IF module_name = "system" THEN _handle_system_request(function_name)
    ELSE IF module_name \notin helper_modules
    THEN Raised("none", module_name, function_name, "ModuleNotFoundError",
                <<"Module not available">>, <<>>)
    ELSE IF ~HasAttr(module_name, function_name)
    THEN Raised("none", module_name, function_name, "AttributeError",
                <<"Function not found in module">>, <<>>)
    ELSE IF outcome = "raises"
    THEN Raised("helper", module_name, function_name, "RuntimeError",
                WrapError(module_name, function_name, <<"missing required argument">>),
                <<"missing required argument">>)
    ELSE Returned("helper", module_name, function_name,
                  {"success", "result", "module", "function", "execution_info"},
                  HelperResult(outcome))
    : module_name \in {Get(request, "module", "")},
      function_name \in {Get(request, "function", "")} })

(***************************************************************************)
(* The daemon: state.                                                      *)
(***************************************************************************)
MaxClients == 2
Threads == 1..MaxClients

VARIABLES
    pc,                   \* pc[t]: where handler thread t is in _handle_client
    received,             \* received[t]: the parsed request, {} before it is read
    routed,               \* routed[t]: the request handed to _route_request
    loaded,               \* loaded[t]: the counter value track_request read
    concurrent_requests,  \* ResourceManager.concurrent_requests
    active_connections,   \* CPANBridgeDaemon.active_connections
    stats,                \* CPANBridgeDaemon.stats
    performance_samples,  \* calls of PerformanceMonitor.record_request
    running,              \* CPANBridgeDaemon.running
    response,             \* response[t]: the response built for the client
    ran                   \* ran[t]: the handler code _route_request ran for t

daemonvars == <<pc, received, routed, loaded, concurrent_requests, active_connections,
                stats, performance_samples, running, response, ran>>

VARIABLES
    DEBUG_LEVEL,          \* the module constant read from CPAN_BRIDGE_DEBUG
    bodies,               \* bodies[t]: what the client of thread t put on the wire
    lpc,                  \* where the main thread is in start_server / _shutdown
    checked,              \* what the checks of this loop iteration found
    did,                  \* how the last loop iteration of the listener ended
    threads,              \* CPANBridgeDaemon.threads
    to_join,              \* the threads _shutdown has still to join
    server_socket,        \* "listening" or "closed"
    socket_file           \* whether the file at SOCKET_PATH exists

servervars == <<DEBUG_LEVEL, bodies, lpc, checked, did, threads, to_join, server_socket,
                socket_file, validations, helpervars>>

vars == <<dbvars, daemonvars, servervars>>

(***************************************************************************)
(* The state machine of the database helper.  Each action is one call of   *)
(* a helper function by a bridge client (or one step of the environment);  *)
(* `delivered` and `history` only record what the calls did.               *)
(***************************************************************************)
NoHistory == [sql |-> "", owner |-> 0, restored |-> FALSE, fetch_all |-> FALSE]

\* What the caller of a helper sees of its reply.
Reply(ret) ==
    [success |-> ret.success, error |-> ret.error,
     connection_id |-> ret.connection_id, cached |-> ret.cached]

\* No response built yet.
NoResponse == [built |-> FALSE, sent |-> FALSE, success |-> FALSE, error_type |-> "",
               error |-> <<>>, keys |-> {}, result |-> NoResult]

\* What the listener remembers of the checks of one loop iteration: the
\* number of tracked connections and the violations it saw (-1: not looked).
NoChecks == [connections |-> -1, violations |-> {}, resources |-> FALSE]

\* A thread that is not inside _ensure_connection_available.
NotRestoring == [at |-> "idle", connection_id |-> 0, md |-> NoConnMeta,
                 conn |-> NoHandle, error |-> ""]

\* The database helper after import.
\* No lock file at the path.
NoFile == [exists |-> FALSE, mtime |-> 0, pid |-> 0]

InitDb ==
    /\ now = 0
    /\ dbPassword = "pwA"
    /\ driver = <<>>
    /\ _connections = EmptyDict
    /\ _statements = EmptyDict
    /\ _CONNECTION_CACHE = EmptyDict
    /\ connFiles = EmptyDict
    /\ stmtFiles = EmptyDict
    /\ nextConn = 0
    /\ nextStmt = 0
    /\ delivered = [s \in StmtIds |-> <<>>]
    /\ history = [stmt |-> [s \in StmtIds |-> NoHistory], disconnected |-> {},
                  cached_password |-> ""]
    /\ lastResult = Reply(NoRet)
    /\ restoring = [t \in Threads |-> NotRestoring]
    /\ lock_file = NoFile
    /\ LOCK_INSTANCES = {}
    /\ locking = [p \in Threads |-> "idle"]

\* CPANBridgeDaemon.__init__; every handler thread is at `start`.
InitHandlers(start) ==
    /\ pc = [t \in Threads |-> start]
    /\ received = [t \in Threads |-> {}]
    /\ routed = [t \in Threads |-> {}]
    /\ loaded = [t \in Threads |-> 0]
    /\ concurrent_requests = 0
    /\ active_connections = {}
    /\ stats = [connections_total |-> 0, peak_connections |-> 0,
                requests_processed |-> 0, requests_failed |-> 0,
                requests_rejected |-> 0, validation_failures |-> 0,
                security_events |-> 0]
    /\ performance_samples = 0
    /\ running = TRUE
    /\ response = [t \in Threads |-> NoResponse]
    /\ ran = [t \in Threads |-> NoRun]
    /\ bodies = [t \in Threads |-> {}]
    /\ validations = <<>>

\* No check_resource_limits call has returned yet.
NoStatus == [memory_mb |-> 0, cpu_percent |-> 0, requests_per_minute |-> 0,
             concurrent_requests |-> 0, violations |-> {}, warnings |-> {},
             checked |-> FALSE]

\* start_server up to its main loop: the socket is bound and listening.
InitListener ==
    /\ lpc = "loop"
    /\ checked = NoChecks
    /\ did = "started"
    /\ threads = {}
    /\ to_join = {}
    /\ server_socket = "listening"
    /\ socket_file = TRUE
    /\ resource_manager = [peak_memory |-> 0, peak_cpu |-> 0, checks |-> 0,
                           resource_alerts |-> [k \in {} |-> 0]]
    /\ resource_status = NoStatus
    /\ health_history = <<>>

Init ==
    /\ InitDb
    /\ InitHandlers("accepted")
    /\ InitListener
    /\ DEBUG_LEVEL = 0
    /\ cache_limit = _CACHE_MAX_SIZE

\* The store a call leaves behind becomes the state; the model stops handing
\* out ids and driver connections at its bounds.
Apply(R) ==
    /\ R.S.nextConn <= MaxConns
    /\ R.S.nextStmt <= MaxStmts
    /\ Len(R.S.driver) <= MaxHandles
    /\ _connections' = R.S.connections
    /\ _statements' = R.S.statements
    /\ _CONNECTION_CACHE' = R.S.cache
    /\ connFiles' = R.S.connFiles
    /\ stmtFiles' = R.S.stmtFiles
    /\ driver' = R.S.driver
    /\ nextConn' = R.S.nextConn
    /\ nextStmt' = R.S.nextStmt
    /\ lastResult' = Reply(R.ret)
    /\ UNCHANGED <<now, dbPassword>>
    /\ UNCHANGED <<daemonvars, servervars>>

IssuedConns == 1..nextConn
IssuedStmts == 1..nextStmt

Connect(dsn, username, password, options) ==
    \E R \in {connect(S0, dsn, username, password, options) : S0 \in {Store}} :
       /\ Apply(R)
       /\ UNCHANGED <<delivered, history>>

ConnectCached(dsn, username, password, options) ==
    \E R \in {connect_cached(S0, dsn, username, password, options) : S0 \in {Store}} :
       /\ Apply(R)
       /\ history' = [history EXCEPT !.cached_password = password]
       /\ UNCHANGED delivered

Prepare(c, sql) ==
    \E R \in {prepare(S0, c, sql) : S0 \in {Store}} :
       /\ Apply(R)
       /\ history' = IF R.ret.success
                     THEN [history EXCEPT !.stmt[R.ret.statement_id] =
                               [NoHistory EXCEPT !.sql = sql, !.owner = c]]
                     ELSE history
       /\ UNCHANGED delivered

ExecuteStatement(c, s) ==
    \E R \in {execute_statement(S0, c, s) : S0 \in {Store}} :
       /\ Apply(R)
       /\ delivered' = IF R.ret.success THEN [delivered EXCEPT ![s] = <<>>] ELSE delivered
       /\ history' = IF R.ret.success
                     THEN [history EXCEPT !.stmt[s].restored = FALSE,
                                          !.stmt[s].fetch_all = FALSE]
                     ELSE history

FetchRow(s) ==
    /\ Len(delivered[s]) < MaxFetches
    /\ \E R \in {fetch_row(S0, s) : S0 \in {Store}} :
          /\ Apply(R)
          /\ delivered' = IF R.ret.success
                          THEN [delivered EXCEPT ![s] = Append(@, R.ret.row)]
                          ELSE delivered
          /\ history' = [history EXCEPT !.stmt[s].restored = @ \/ R.restored]

FetchAll(s) ==
    /\ Len(delivered[s]) < MaxFetches
    /\ \E R \in {fetch_all(S0, s) : S0 \in {Store}} :
          /\ Apply(R)
          /\ delivered' = IF R.ret.success
                          THEN [delivered EXCEPT ![s] = @ \o R.ret.rows]
                          ELSE delivered
          /\ history' = [history EXCEPT !.stmt[s].restored = @ \/ R.restored,
                                        !.stmt[s].fetch_all = @ \/ R.ret.success]

Disconnect(c) ==
    \E R \in {disconnect(S0, c) : S0 \in {Store}} :
       /\ Apply(R)
       /\ history' = IF R.ret.success
                     THEN [history EXCEPT !.disconnected = @ \cup {c}]
                     ELSE history
       /\ UNCHANGED delivered

FinishStatement(s) ==
    \E R \in {finish_statement(S0, s) : S0 \in {Store}} :
       /\ Apply(R)
       /\ UNCHANGED <<delivered, history>>

CommitTxn(c) ==
    \E R \in {commit(S0, c) : S0 \in {Store}} :
       /\ Apply(R)
       /\ UNCHANGED <<delivered, history>>

GetOutParams(s) ==
    \E R \in {get_out_params(S0, s) : S0 \in {Store}} :
       /\ Apply(R)
       /\ UNCHANGED <<delivered, history>>

GetConnectionError(c) ==
    \E R \in {get_connection_error(S0, c) : S0 \in {Store}} :
       /\ Apply(R)
       /\ UNCHANGED <<delivered, history>>

GetStatementError(s) ==
    \E R \in {get_statement_error(S0, s) : S0 \in {Store}} :
       /\ Apply(R)
       /\ UNCHANGED <<delivered, history>>

(***************************************************************************)
(* The environment.                                                        *)
(***************************************************************************)
Tick(step, limit) ==
    /\ now + step <= limit
    /\ now' = now + step
    /\ UNCHANGED <<dbPassword, driver, _connections, _statements, _CONNECTION_CACHE,
                   connFiles, stmtFiles, nextConn, nextStmt, delivered, history,
                   lastResult>>
    /\ UNCHANGED <<daemonvars, servervars>>

\* The process holding the in-memory maps ends and a new one starts: the
\* maps are empty again, the durable records stay, the old process's driver
\* connections are gone.
Restart ==
    /\ _connections' = EmptyDict
    /\ _statements' = EmptyDict
    /\ _CONNECTION_CACHE' = EmptyDict
    /\ driver' = [h \in DOMAIN driver |-> "closed"]
    /\ UNCHANGED <<now, dbPassword, connFiles, stmtFiles, nextConn, nextStmt,
                   delivered, history, lastResult>>
    /\ UNCHANGED <<daemonvars, servervars>>

\* The database password is changed.
RotatePassword(p) ==
    /\ p # dbPassword
    /\ dbPassword' = p
    /\ UNCHANGED <<now, driver, _connections, _statements, _CONNECTION_CACHE,
                   connFiles, stmtFiles, nextConn, nextStmt, delivered, history,
                   lastResult>>
    /\ UNCHANGED <<daemonvars, servervars>>

\* The handle store, one connection deep.
Next ==
    \/ \E p \in Passwords :
          nextConn < MaxStoreConns /\ Connect("TEST", "u1", p, {})
    \/ \E c \in IssuedConns, q \in Queries : Prepare(c, q)
    \/ \E c \in IssuedConns, s \in IssuedStmts : ExecuteStatement(c, s)
    \/ \E s \in IssuedStmts : FetchRow(s)
    \/ \E s \in IssuedStmts : FetchAll(s)
    \/ \E c \in IssuedConns : Disconnect(c)
    \/ \E s \in IssuedStmts : FinishStatement(s)
    \/ \E c \in IssuedConns : CommitTxn(c)
    \/ Tick(TickStep, MaxTime)
    \/ Restart
    \/ \E p \in Passwords : RotatePassword(p)

Spec == Init /\ [][Next]_vars

\* The connection cache.
NextCache ==
    \/ \E d \in DSNs, u \in Users, p \in Passwords, o \in OptionChoices :
          ConnectCached(d, u, p, o)
    \/ \E c \in IssuedConns : Disconnect(c)
    \/ Tick(CacheTickStep, MaxCacheTime)
    \/ \E p \in Passwords : RotatePassword(p)

SpecCache == Init /\ [][NextCache]_vars

\* The operations that read a handle without running SQL on it, among the
\* calls that create the handles and the restart that empties the maps.
NextAccessors ==
    \/ \E p \in Passwords :
          nextConn < MaxStoreConns /\ Connect("TEST", "u1", p, {})
    \/ \E c \in IssuedConns, q \in Queries : Prepare(c, q)
    \/ \E c \in IssuedConns, s \in IssuedStmts : ExecuteStatement(c, s)
    \/ \E s \in IssuedStmts : GetOutParams(s)
    \/ \E c \in IssuedConns : GetConnectionError(c)
    \/ \E s \in IssuedStmts : GetStatementError(s)
    \/ \E s \in IssuedStmts : FinishStatement(s)
    \/ \E c \in IssuedConns : Disconnect(c)
    \/ Tick(TickStep, MaxTime)
    \/ Restart

SpecAccessors == Init /\ [][NextAccessors]_vars

(***************************************************************************)
(* _ensure_connection_available run by the daemon's handler threads at the *)
(* same time.  The helper holds no lock, so the steps of one call          *)
(* interleave with the steps of another: the membership test, the load of  *)
(* the durable record, the new driver connection, and the assignment into  *)
(* _connections.                                                           *)
(***************************************************************************)
\* What the calls of the other threads leave alone.
restoreframe == <<now, dbPassword, _statements, _CONNECTION_CACHE, stmtFiles, nextConn,
                  nextStmt, delivered, history, lastResult, cache_limit, daemonvars,
                  DEBUG_LEVEL, bodies, lpc, checked, did, threads, to_join, server_socket,
                  socket_file, validations, monitorvars, lockvars>>

\* Line 504: if connection_id not in _connections
EnsureCheck(t, c) ==
    /\ restoring[t].at = "idle"
    /\ restoring' = [restoring EXCEPT ![t] =
          [NotRestoring EXCEPT !.connection_id = c,
                               !.at = IF c \in DOMAIN _connections THEN "done" ELSE "load"]]
    /\ UNCHANGED <<driver, _connections, connFiles>>
    /\ UNCHANGED restoreframe

\* Lines 507-514: metadata = _load_connection_metadata(connection_id)
EnsureLoad(t) ==
    /\ restoring[t].at = "load"
    /\ \E L \in {_load_connection_metadata(S0, restoring[t].connection_id) : S0 \in {Store}} :
          /\ connFiles' = L.S.connFiles
          /\ restoring' = [restoring EXCEPT ![t] =
                IF L.found
                THEN [@ EXCEPT !.at = "restore", !.md = L.md]
                ELSE [@ EXCEPT !.at = "done", !.error = "Invalid connection ID"]]
    /\ UNCHANGED <<driver, _connections>>
    /\ UNCHANGED restoreframe

\* Lines 516-524: conn = _restore_connection_from_metadata(metadata)
EnsureRestore(t) ==
    /\ restoring[t].at = "restore"
    /\ \E R \in {_restore_connection_from_metadata(S0, restoring[t].md) : S0 \in {Store}} :
          /\ driver' = R.S.driver
          /\ IF R.conn = NoHandle
             THEN /\ connFiles' = DictDel(connFiles, restoring[t].connection_id)
                  /\ restoring' = [restoring EXCEPT ![t] =
                        [@ EXCEPT !.at = "done",
                                  !.error = "Failed to restore connection - credentials may have changed"]]
             ELSE /\ restoring' = [restoring EXCEPT ![t] =
                        [@ EXCEPT !.at = "store", !.conn = R.conn]]
                  /\ UNCHANGED connFiles
    /\ UNCHANGED _connections
    /\ UNCHANGED restoreframe

\* Lines 526-535: _connections[connection_id] = {...}.  An entry another call
\* has stored meanwhile is replaced; the connection object it held is closed
\* only if the driver's finaliser runs (`finalised`), the helper does not
\* close it.
EnsureStore(t, finalised) ==
    /\ restoring[t].at = "store"
    /\ \E c \in {restoring[t].connection_id} :
          /\ _connections' = DictPut(_connections, c,
                                     RestoredConn(restoring[t].conn, restoring[t].md))
          /\ driver' = IF c \in DOMAIN _connections /\ finalised
                       THEN DriverClose(driver, _connections[c].connection)
                       ELSE driver
    /\ restoring' = [restoring EXCEPT ![t].at = "done"]
    /\ UNCHANGED connFiles
    /\ UNCHANGED restoreframe

\* The process ends when no call is under way.
RestartWhenIdle ==
    /\ \A t \in Threads : restoring[t].at \in {"idle", "done"}
    /\ Restart

NextRestore ==
    \/ \E p \in Passwords :
          nextConn < MaxStoreConns /\ Connect("TEST", "u1", p, {})
    \/ RestartWhenIdle
    \/ Tick(TickStep, MaxTime)
    \/ \E p \in Passwords : RotatePassword(p)
    \/ \E t \in Threads, c \in IssuedConns : EnsureCheck(t, c)
    \/ \E t \in Threads : EnsureLoad(t)
    \/ \E t \in Threads : EnsureRestore(t)
    \/ \E t \in Threads, finalised \in BOOLEAN : EnsureStore(t, finalised)

SpecRestore == Init /\ [][NextRestore]_vars

(***************************************************************************)
(* The state machine of the daemon.  A handler thread runs _handle_client  *)
(* for one accepted connection; its steps interleave with the steps of     *)
(* the other handler threads.                                              *)
(***************************************************************************)
RequestPairs ==
    {<<"test", "ping">>, <<"test", "echo">>, <<"test", "ping+LF">>,
     <<"test", "health">>, <<"test", "stats">>,
     <<"system", "info">>, <<"system", "shutdown">>, <<"system", "reboot">>,
     <<"system", "health">>, <<"system", "stats">>, <<"system", "performance">>,
     <<"system", "connections">>, <<"system", "cleanup">>, <<"system", "metrics">>,
     <<"database", "connect">>, <<"database", "drop">>, <<"database", "Eval">>,
     <<"http", "post">>, <<"sftp", "connect">>, <<"shell", "run">>}

\* The JSON objects a client of the model sends.
Requests ==
    {[module |-> p[1], function |-> p[2]] : p \in RequestPairs}
    \cup {[module |-> "test"],
          [module |-> "test", function |-> "ping", bogus |-> "x"],
          [module |-> "database", function |-> "connect", params |-> "<script>"],
          [module |-> "database", function |-> "connect",
           params |-> "DROP TABLE users; --"]}

\* MAX_REQUEST_SIZE, counted in chunks of the 4096 bytes one recv returns.
MaxRequestChunks == 3

\* What a client puts on the wire: `chunks` chunks; the data parses as a JSON
\* document once `complete` chunks of it have arrived (0: it never does);
\* after its last chunk the client closes its side or stalls; the document
\* is a JSON object (`request`) or some other JSON value.  `torn` is the chunk
\* that ends inside a multi-byte UTF-8 character, 0 when none does.
Ping == [module |-> "test", function |-> "ping"]
Bodies ==
    {[chunks |-> 1, complete |-> 1, after |-> "stall", value |-> "object",
      request |-> {r}, torn |-> 0] : r \in Requests}
    \cup {[chunks |-> 0, complete |-> 0, after |-> a, value |-> "none", request |-> {},
           torn |-> 0] : a \in {"close", "stall"}}
    \cup {[chunks |-> 1, complete |-> 0, after |-> a, value |-> "none", request |-> {},
           torn |-> 0] : a \in {"close", "stall"}}
    \cup {[chunks |-> 1, complete |-> 1, after |-> "stall", value |-> "list",
           request |-> {}, torn |-> 0]}
    \cup {[chunks |-> 2, complete |-> 2, after |-> "stall", value |-> "object",
           request |-> {Ping}, torn |-> n] : n \in {0, 1}}
    \cup {[chunks |-> MaxRequestChunks, complete |-> MaxRequestChunks, after |-> "stall",
           value |-> "object", request |-> {Ping}, torn |-> 0]}
    \cup {[chunks |-> MaxRequestChunks + 1, complete |-> c, after |-> "stall",
           value |-> "object", request |-> {Ping}, torn |-> 0]
             : c \in {0, 1, MaxRequestChunks + 1}}

\* Lines 1514-1537: the loop that reads the socket, started with n chunks of
\* data.  It ends with the data it has, or with the timeout of a recv.
RECURSIVE RecvLoop(_, _)
RecvLoop(body, n) ==
    IF n >= MaxRequestChunks THEN [data |-> n, timeout |-> FALSE, undecodable |-> FALSE]
    ELSE IF n = body.chunks
    THEN [data |-> n, timeout |-> body.after = "stall", undecodable |-> FALSE]
    ELSE IF body.torn = n + 1
    THEN \* data.decode('utf-8') raises on the character cut in two
         [data |-> n + 1, timeout |-> FALSE, undecodable |-> TRUE]
    ELSE IF body.complete = n + 1
    THEN [data |-> n + 1, timeout |-> FALSE, undecodable |-> FALSE]
    ELSE RecvLoop(body, n + 1)

\* A variant whose size test is "more than the maximum"; C12 does not hold
\* of it.
ReadOutcomeAboveMaximum(body) ==
    The({
    IF r.undecodable THEN "undecodable"
    ELSE IF r.timeout THEN "timeout"
    ELSE IF r.data > MaxRequestChunks THEN "too_large"
    ELSE IF r.data = 0 THEN "empty"
    ELSE IF body.complete # r.data THEN "malformed"
    ELSE IF body.value # "object" THEN "not_object"
    ELSE "none"
    : r \in {RecvLoop(body, 0)} })

\* Lines 1510-1550: what reading the socket yields, "none" when a JSON object
\* comes out of it.
ReadOutcome(body) ==
    The({
    IF r.undecodable THEN "undecodable"
    ELSE IF r.timeout THEN "timeout"
    ELSE IF r.data >= MaxRequestChunks THEN "too_large"
    ELSE IF r.data = 0 THEN "empty"
    ELSE IF body.complete # r.data THEN "malformed"
    ELSE IF body.value # "object" THEN "not_object"
    ELSE "none"
    : r \in {RecvLoop(body, 0)} })

\* The exception each failure of the read raises.
ReadError(failure) ==
    CASE failure = "timeout" ->
            [error_type |-> "ValueError",
             error |-> <<"Request timeout - data transmission too slow">>]
      [] failure = "too_large" ->
            [error_type |-> "ValueError", error |-> <<"Request too large">>]
      [] failure = "empty" ->
            [error_type |-> "ValueError", error |-> <<"Empty request received">>]
      [] failure = "malformed" ->
            [error_type |-> "JSONDecodeError", error |-> <<"Expecting value">>]
      [] failure = "undecodable" ->
            [error_type |-> "UnicodeDecodeError",
             error |-> <<"'utf-8' codec can't decode bytes: unexpected end of data">>]
      [] OTHER ->
            [error_type |-> "AttributeError",
             error |-> <<"'list' object has no attribute 'get'">>]

\* What the handler actions leave alone outside the daemon's own state.
handlerframe == <<dbvars, DEBUG_LEVEL, lpc, checked, did, threads, to_join,
                  server_socket, socket_file, validations, helpervars>>

\* A variant whose failure response has the message alone; C18 does not hold
\* of it.
HandleExceptionWithoutType(t, stats1, error_type, error) ==
    /\ response' = [response EXCEPT ![t] =
           [built |-> TRUE, sent |-> FALSE, success |-> FALSE,
            error_type |-> "", error |-> error,
            keys |-> {"success", "error", "daemon_info"},
            result |-> NoResult]]
    /\ stats' = [stats1 EXCEPT !.requests_failed = @ + 1]
    /\ pc' = [pc EXCEPT ![t] = "send"]

\* Lines 1584-1604: the except clause of _handle_client.
HandleException(t, stats1, error_type, error) ==
    /\ response' = [response EXCEPT ![t] =
           [built |-> TRUE, sent |-> FALSE, success |-> FALSE,
            error_type |-> error_type, error |-> error,
            keys |-> {"success", "error", "error_type", "daemon_info"}
                        \cup (IF DEBUG_LEVEL >= 1 THEN {"traceback"} ELSE {}),
            result |-> NoResult]]
    /\ stats' = [stats1 EXCEPT !.requests_failed = @ + 1]
    /\ pc' = [pc EXCEPT ![t] = "send"]

\* Lines 1486-1496.
Register(t) ==
    /\ pc[t] = "accepted"
    /\ active_connections' = active_connections \cup {t}
    /\ stats' = [stats EXCEPT
                   !.connections_total = @ + 1,
                   !.peak_connections =
                       IF Cardinality(active_connections \cup {t}) > @
                       THEN Cardinality(active_connections \cup {t}) ELSE @]
    /\ pc' = [pc EXCEPT ![t] = "track_request"]
    /\ UNCHANGED <<received, routed, loaded, concurrent_requests, performance_samples,
                   running, response, ran, bodies>>
    /\ UNCHANGED handlerframe

\* track_request: self.concurrent_requests += 1 reads the counter ...
TrackLoad(t) ==
    /\ pc[t] = "track_request"
    /\ loaded' = [loaded EXCEPT ![t] = concurrent_requests]
    /\ pc' = [pc EXCEPT ![t] = "track_store"]
    /\ UNCHANGED <<received, routed, concurrent_requests, active_connections, stats,
                   performance_samples, running, response, ran, bodies>>
    /\ UNCHANGED handlerframe

\* ... and stores the value it read plus one; no lock is held in between.
TrackStore(t) ==
    /\ pc[t] = "track_store"
    /\ concurrent_requests' = loaded[t] + 1
    /\ pc' = [pc EXCEPT ![t] = "read"]
    /\ UNCHANGED <<received, routed, loaded, active_connections, stats,
                   performance_samples, running, response, ran, bodies>>
    /\ UNCHANGED handlerframe

\* Lines 1510-1550, when no request comes out of the socket.
ReadFails(t, body) ==
    /\ pc[t] = "read"
    /\ \E failure \in {ReadOutcome(body)} :
          /\ failure # "none"
          /\ HandleException(t,
                IF failure = "too_large"
                THEN [stats EXCEPT !.requests_rejected = @ + 1] ELSE stats,
                ReadError(failure).error_type, ReadError(failure).error)
    /\ bodies' = [bodies EXCEPT ![t] = {body}]
    /\ UNCHANGED <<received, routed, loaded, concurrent_requests, active_connections,
                   performance_samples, running, ran>>
    /\ UNCHANGED handlerframe

\* Lines 1510-1555, when a JSON object is read.
ReadRequest(t, body) ==
    /\ pc[t] = "read"
    /\ ReadOutcome(body) = "none"
    /\ received' = [received EXCEPT ![t] = body.request]
    /\ bodies' = [bodies EXCEPT ![t] = {body}]
    /\ pc' = [pc EXCEPT ![t] = "validate"]
    /\ UNCHANGED <<routed, loaded, concurrent_requests, active_connections, stats,
                   performance_samples, running, response, ran>>
    /\ UNCHANGED handlerframe

\* Lines 1557-1564 with _validate_request (1210-1242).
ValidateRequest(t) ==
    /\ pc[t] = "validate"
    /\ \E request \in {[k \in DOMAIN r \cup {"request_id"} |->
                          IF k \in DOMAIN r THEN r[k] ELSE "uuid"] : r \in received[t]} :
       \E validation_result \in {validate_request(request)} :
       \E stats1 \in
            {IF validation_result.is_valid
             THEN [stats EXCEPT !.security_events = @ + validation_result.security_events]
             ELSE [stats EXCEPT !.security_events = @ + validation_result.security_events,
                                !.validation_failures = @ + 1,
                                !.requests_rejected = @ + 1]} :
          IF ~validation_result.is_valid
          THEN /\ HandleException(t, stats1, "ValueError",
                      <<"Request validation failed">> \o validation_result.errors)
               /\ UNCHANGED routed
          ELSE /\ routed' = [routed EXCEPT ![t] =
                      IF validation_result.sanitized_request # {}
                      THEN validation_result.sanitized_request ELSE {request}]
               /\ stats' = stats1
               /\ pc' = [pc EXCEPT ![t] = "route"]
               /\ UNCHANGED response
    /\ UNCHANGED <<received, loaded, concurrent_requests, active_connections,
                   performance_samples, running, ran, bodies>>
    /\ UNCHANGED handlerframe

\* Lines 1566-1582 with _route_request (1244-1310).  system.cleanup drops the
\* tracked connections that have been idle for longer than the stale timeout,
\* which the connection of the request itself is not.
RouteRequest(t, outcome) ==
    /\ pc[t] = "route"
    /\ \E request \in routed[t] :
       \E r \in {_route_request(request, outcome)} :
          /\ ran' = [ran EXCEPT ![t] = r.ran]
          /\ running' = IF r.shutdown THEN FALSE ELSE running
          /\ IF r.ran.module = "system" /\ r.ran.function = "cleanup"
             THEN \E stale \in SUBSET (active_connections \ {t}) :
                     active_connections' = active_connections \ stale
             ELSE UNCHANGED active_connections
          /\ IF r.raised
             THEN /\ HandleException(t, stats, r.error_type, r.error)
                  /\ UNCHANGED performance_samples
             ELSE /\ response' = [response EXCEPT ![t] =
                         [built |-> TRUE, sent |-> FALSE, success |-> TRUE,
                          error_type |-> "", error |-> <<>>,
                          keys |-> r.keys, result |-> r.result]]
                  /\ performance_samples' = performance_samples + 1
                  /\ stats' = [stats EXCEPT !.requests_processed = @ + 1]
                  /\ pc' = [pc EXCEPT ![t] = "send"]
    /\ UNCHANGED <<received, routed, loaded, concurrent_requests, bodies>>
    /\ UNCHANGED handlerframe

\* A variant that keeps the connection open for a further request after a
\* response has gone out; C14 does not hold of it.
SendResponseKeepingOpen(t, send_ok) ==
    /\ pc[t] = "send"
    /\ response' = [response EXCEPT ![t].sent = send_ok]
    /\ pc' = [pc EXCEPT ![t] = IF send_ok THEN "read" ELSE "done"]
    /\ UNCHANGED <<received, routed, loaded, concurrent_requests, active_connections,
                   stats, performance_samples, running, ran, bodies>>
    /\ UNCHANGED handlerframe

\* Lines 1606-1618: the response is sent (or the send fails) and the socket
\* is closed.
SendResponse(t, send_ok) ==
    /\ pc[t] = "send"
    /\ response' = [response EXCEPT ![t].sent = send_ok]
    /\ pc' = [pc EXCEPT ![t] = "done"]
    /\ UNCHANGED <<received, routed, loaded, concurrent_requests, active_connections,
                   stats, performance_samples, running, ran, bodies>>
    /\ UNCHANGED handlerframe

NextDaemon ==
    \/ \E t \in Threads : Register(t)
    \/ \E t \in Threads : TrackLoad(t)
    \/ \E t \in Threads : TrackStore(t)
    \/ \E t \in Threads, body \in Bodies : ReadFails(t, body)
    \/ \E t \in Threads, body \in Bodies : ReadRequest(t, body)
    \/ \E t \in Threads : ValidateRequest(t)
    \/ \E t \in Threads, outcome \in HandlerOutcomes : RouteRequest(t, outcome)
    \/ \E t \in Threads, send_ok \in BOOLEAN : SendResponse(t, send_ok)

\* The daemon may run with the debug level at its default or raised.
DebugLevels == {0, 1}
InitDaemon ==
    /\ InitDb
    /\ InitHandlers("accepted")
    /\ InitListener
    /\ DEBUG_LEVEL \in DebugLevels
    /\ cache_limit = _CACHE_MAX_SIZE

SpecDaemon == InitDaemon /\ [][NextDaemon]_vars

\* The validator alone: validate_request is called with one request after
\* another, and what it returned is kept.
MaxValidations == 3
Validate(request) ==
    /\ Len(validations) < MaxValidations
    /\ validations' = Append(validations,
                             [request |-> request, result |-> validate_request(request)])
    /\ UNCHANGED <<dbvars, daemonvars, DEBUG_LEVEL, bodies, lpc, checked, did, threads,
                   to_join, server_socket, socket_file, helpervars>>

NextValidator == \E request \in Requests : Validate(request)

SpecValidator == Init /\ [][NextValidator]_vars

\* The validator called with requests whose params are structured values.
StructuredRequests ==
    {[module |-> "database", function |-> "connect", params |-> token] :
        token \in StructuredParams}

NextSanitizer == \E request \in StructuredRequests : Validate(request)

SpecSanitizer == Init /\ [][NextSanitizer]_vars

\* One body for each way a connection can go: a request that succeeds, one
\* the validator rejects, one whose handler may raise, a body over the size
\* limit, and a client that sends nothing.
ConnectionBodies ==
    {body \in Bodies :
        \/ /\ body.chunks = 1
           /\ body.request # {}
           /\ body.request \subseteq {Ping, [module |-> "system", function |-> "reboot"],
                                      [module |-> "database", function |-> "connect"]}
        \/ body.chunks = 0 /\ body.after = "stall"
        \/ body.chunks > MaxRequestChunks /\ body.complete = 0}

\* The steps of _handle_client in thread t.
_handle_client(t) ==
    \/ Register(t)
    \/ TrackLoad(t)
    \/ TrackStore(t)
    \/ \E body \in ConnectionBodies : ReadFails(t, body)
    \/ \E body \in ConnectionBodies : ReadRequest(t, body)
    \/ ValidateRequest(t)
    \/ \E outcome \in HandlerOutcomes : RouteRequest(t, outcome)
    \/ \E send_ok \in BOOLEAN : SendResponse(t, send_ok)

NextConnection == \E t \in Threads : _handle_client(t)

SpecConnection == Init /\ [][NextConnection]_vars

\* Every started thread keeps being scheduled; a recv returns or times out
\* after 30 s (line 1511), and the function called returns or raises.
FairConnection == SpecConnection /\ \A t \in Threads : WF_vars(_handle_client(t))

(***************************************************************************)
(* The listener: the main loop of start_server, _shutdown, and the threads *)
(* around it.  A handler thread is "idle" until a client connects,         *)
(* "pending" while the client waits in the backlog, and runs               *)
(* _handle_client once the listener has accepted it.                       *)
(***************************************************************************)
\* MAX_CONNECTIONS and MAX_CONCURRENT_REQUESTS as configured for the model.
MAX_CONNECTIONS == 1
MAX_CONCURRENT_REQUESTS == 1

\* The violations memory, CPU and request rate can add at a check.
Pressures == {{}, {"memory"}}

\* Lines 1020-1074: the violations check_resource_limits reports.
check_resource_limits(pressure) ==
    pressure \cup (IF concurrent_requests > MAX_CONCURRENT_REQUESTS
                   THEN {"concurrent"} ELSE {})

\* Thread.is_alive()
IsAlive(t) == pc[t] \notin {"idle", "pending", "done"}

\* What the listener's steps leave alone.
listenerframe == <<dbvars, received, routed, loaded, concurrent_requests, stats,
                   performance_samples, response, ran, DEBUG_LEVEL, bodies, validations,
                   helpervars>>

\* Line 1810: while self.running
LoopHead ==
    /\ lpc = "loop"
    /\ IF running
       THEN lpc' = "limits" /\ checked' = NoChecks
       ELSE lpc' = "shutdown" /\ UNCHANGED checked
    /\ UNCHANGED <<pc, active_connections, running, did, threads, to_join, server_socket,
                   socket_file>>
    /\ UNCHANGED listenerframe

\* A variant that logs the connection limit and goes on to accept; C11 does
\* not hold of it.
CheckLimitsWithoutContinue ==
    /\ lpc = "limits"
    /\ checked' = [checked EXCEPT !.connections = Cardinality(active_connections)]
    /\ lpc' = "resources"
    /\ UNCHANGED <<pc, active_connections, running, did, threads, to_join, server_socket,
                   socket_file>>
    /\ UNCHANGED listenerframe

\* A variant that waits inside the check until the connection count drops;
\* C15 does not hold of it.
CheckLimitsWaiting ==
    /\ lpc = "limits"
    /\ checked' = [checked EXCEPT !.connections = Cardinality(active_connections)]
    /\ IF Cardinality(active_connections) >= MAX_CONNECTIONS
       THEN lpc' = "limits" /\ did' = "sleep_limit"
       ELSE lpc' = "resources" /\ UNCHANGED did
    /\ UNCHANGED <<pc, active_connections, running, threads, to_join, server_socket,
                   socket_file>>
    /\ UNCHANGED listenerframe

\* Lines 1812-1816: the connection limit; over it, sleep 0.1 s and continue.
CheckLimits ==
    /\ lpc = "limits"
    /\ checked' = [checked EXCEPT !.connections = Cardinality(active_connections)]
    /\ IF Cardinality(active_connections) >= MAX_CONNECTIONS
       THEN lpc' = "loop" /\ did' = "sleep_limit"
       ELSE lpc' = "resources" /\ UNCHANGED did
    /\ UNCHANGED <<pc, active_connections, running, threads, to_join, server_socket,
                   socket_file>>
    /\ UNCHANGED listenerframe

\* Lines 1818-1823: the resource limits; on a violation, sleep 1 s and continue.
CheckResources(pressure) ==
    /\ lpc = "resources"
    /\ \E violations \in {check_resource_limits(pressure)} :
          /\ checked' = [checked EXCEPT !.violations = violations, !.resources = TRUE]
          /\ IF violations # {}
             THEN lpc' = "loop" /\ did' = "sleep_resources"
             ELSE lpc' = "accept" /\ UNCHANGED did
    /\ UNCHANGED <<pc, active_connections, running, threads, to_join, server_socket,
                   socket_file>>
    /\ UNCHANGED listenerframe

\* Lines 1825-1839: accept returns the client of thread t; the thread is
\* started and self.threads is pruned of the threads that have ended.
AcceptClient(t) ==
    /\ lpc = "accept"
    /\ pc[t] = "pending"
    /\ pc' = [pc EXCEPT ![t] = "accepted"]
    /\ threads' = {u \in threads \cup {t} : u = t \/ IsAlive(u)}
    /\ lpc' = "loop"
    /\ did' = "accepted"
    /\ UNCHANGED <<active_connections, running, checked, to_join, server_socket,
                   socket_file>>
    /\ UNCHANGED listenerframe

\* Lines 1826-1827, 1841-1842: no client within the 1 s timeout of accept.
AcceptTimeout ==
    /\ lpc = "accept"
    /\ \A t \in Threads : pc[t] # "pending"
    /\ lpc' = "loop"
    /\ did' = "timeout"
    /\ UNCHANGED <<pc, active_connections, running, checked, threads, to_join,
                   server_socket, socket_file>>
    /\ UNCHANGED listenerframe

\* Lines 1857-1867: _shutdown clears the flag and closes the server socket.
Shutdown ==
    /\ lpc = "shutdown"
    /\ running' = FALSE
    /\ server_socket' = "closed"
    /\ to_join' = threads
    /\ lpc' = "join"
    /\ UNCHANGED <<pc, active_connections, checked, did, threads, socket_file>>
    /\ UNCHANGED listenerframe

\* Lines 1869-1873: thread.join(timeout=5.0) returns when the thread has
\* ended or when the five seconds are over.
Join(t) ==
    /\ lpc = "join"
    /\ t \in to_join
    /\ to_join' = to_join \ {t}
    /\ UNCHANGED <<pc, active_connections, running, checked, did, threads, lpc,
                   server_socket, socket_file>>
    /\ UNCHANGED listenerframe

\* Lines 1875-1882: the socket file is removed; start_server returns and the
\* process ends.
Unlink ==
    /\ lpc = "join"
    /\ to_join = {}
    /\ socket_file' = FALSE
    /\ lpc' = "exited"
    /\ UNCHANGED <<pc, active_connections, running, checked, did, threads, to_join,
                   server_socket>>
    /\ UNCHANGED listenerframe

\* Lines 1154-1157: SIGTERM or SIGINT.
_signal_handler ==
    /\ lpc # "exited"
    /\ running
    /\ running' = FALSE
    /\ UNCHANGED <<pc, active_connections, checked, did, threads, to_join, lpc,
                   server_socket, socket_file>>
    /\ UNCHANGED listenerframe

\* A client connects to the socket and waits in its backlog.
ClientConnects(t) ==
    /\ server_socket = "listening"
    /\ pc[t] = "idle"
    /\ pc' = [pc EXCEPT ![t] = "pending"]
    /\ UNCHANGED <<active_connections, running, checked, did, threads, to_join, lpc,
                   server_socket, socket_file>>
    /\ UNCHANGED listenerframe

\* Lines 1624-1647: the cleanup thread drops the tracked connections whose
\* last activity is older than the stale timeout.
_cleanup_thread_func ==
    /\ lpc # "exited"
    /\ running
    /\ \E stale \in SUBSET active_connections :
          /\ stale # {}
          /\ active_connections' = active_connections \ stale
    /\ UNCHANGED <<pc, running, checked, did, threads, to_join, lpc, server_socket,
                   socket_file>>
    /\ UNCHANGED listenerframe

\* The steps of the main thread.
Listener ==
    \/ LoopHead
    \/ CheckLimits
    \/ \E pressure \in Pressures : CheckResources(pressure)
    \/ \E t \in Threads : AcceptClient(t)
    \/ AcceptTimeout
    \/ Shutdown
    \/ \E t \in Threads : Join(t)
    \/ Unlink

\* The requests the clients of the listener's model send.
ServerBodies ==
    {body \in Bodies :
        \/ body.chunks = 0 /\ body.after = "close"
        \/ body.request = {[module |-> "system", function |-> "shutdown"]}}

\* The steps of handler thread t, which end with the process.
Handler(t) ==
    /\ lpc # "exited"
    /\ \/ Register(t)
       \/ TrackLoad(t)
       \/ TrackStore(t)
       \/ \E body \in ServerBodies : ReadFails(t, body)
       \/ \E body \in ServerBodies : ReadRequest(t, body)
       \/ ValidateRequest(t)
       \/ RouteRequest(t, "returns")
       \/ SendResponse(t, TRUE)

NextServer ==
    \/ Listener
    \/ _signal_handler
    \/ _cleanup_thread_func
    \/ \E t \in Threads : ClientConnects(t)
    \/ \E t \in Threads : Handler(t)

InitServer ==
    /\ InitDb
    /\ InitHandlers("idle")
    /\ InitListener
    /\ DEBUG_LEVEL = 0
    /\ cache_limit = _CACHE_MAX_SIZE

SpecServer == InitServer /\ [][NextServer]_vars

\* The main thread and every started handler thread keep being scheduled.
FairServer == SpecServer /\ WF_vars(Listener)

(***************************************************************************)
(* Properties.                                                             *)
(***************************************************************************)
IsPrefix(s, t) == Len(s) <= Len(t) /\ SubSeq(t, 1, Len(s)) = s

\* C1: once every handler thread that has started has also finished, the
\* concurrent-request counter is back at 0.
C1_CounterReturnsToZero ==
    (\A t \in Threads : pc[t] \in {"accepted", "done"}) => concurrent_requests = 0

\* C2: a caller that fetches row by row receives the rows of the result set
\* in order, none twice, also when the statement was restored from its
\* durable record between the execute and a fetch.
C2_RestorationTransparent ==
    \A s \in StmtIds :
       (history.stmt[s].restored /\ ~history.stmt[s].fetch_all)
          => IsPrefix(delivered[s], ResultSet(history.stmt[s].sql))

\* C3: a fetch_row on an executed statement whose pending-row slot holds the
\* probed row of the latest execute (nothing was fetched since) delivers
\* exactly that row and clears the slot.
C3_ProbedRowDeliveredFirst ==
    [][\A s \in StmtIds :
          (/\ s \in DOMAIN _statements
           /\ _statements[s].executed
           /\ _statements[s].peeked_row # NoRow
           /\ delivered[s] = <<>>
           /\ ~history.stmt[s].fetch_all
           /\ ~history.stmt[s].restored
           /\ FetchRow(s))
             => /\ delivered'[s] = Append(delivered[s], _statements[s].peeked_row)
                /\ _statements'[s].peeked_row = NoRow]_vars

\* C4: a connection whose disconnect returned success has no in-memory entry
\* and no durable record, and no statement it owns is left in memory or in
\* durable storage.
C4_DisconnectLeavesNothing ==
    \A c \in history.disconnected :
       /\ c \notin DOMAIN _connections
       /\ c \notin DOMAIN connFiles
       /\ \A s \in DOMAIN _statements : _statements[s].connection_id # c
       /\ \A s \in DOMAIN stmtFiles : stmtFiles[s].connection_id # c

\* The (module, function) pair of a request is in the whitelist.
InWhitelist(request) ==
    /\ {"module", "function"} \subseteq DOMAIN request
    /\ request.module \in DOMAIN module_whitelist
    /\ request.function \in module_whitelist[request.module]

\* C5: for a request whose (module, function) pair is not in the whitelist no
\* helper function and no inline test/system handler runs, and the response
\* built for it says success = false.
C5_NoHandlerOutsideWhitelist ==
    \A t \in Threads : \A request \in received[t] :
       ~InWhitelist(request)
          => /\ pc[t] # "route"
             /\ ran[t] = NoRun
             /\ (pc[t] \in {"send", "done"}
                    => response[t].built /\ ~response[t].success)

\* A request outside the whitelist, sent to an administrative module, has
\* been answered.
C5_Witness ==
    \E t \in Threads : \E request \in received[t] :
       /\ pc[t] = "done"
       /\ ~InWhitelist(request)
       /\ request.module \in {"test", "system"}
       /\ "function" \in DOMAIN request
       /\ ~response[t].success

\* The flags connect_cached reads from an options dict.
Flags(options) ==
    <<OptGet(options, "AutoCommit", TRUE), OptGet(options, "RaiseError", FALSE),
      OptGet(options, "PrintError", TRUE)>>

\* A cache entry that is within the idle timeout and passes the liveness probe.
LiveEntry(k) ==
    /\ k \in DOMAIN _CONNECTION_CACHE
    /\ now - _CONNECTION_CACHE[k].last_used <= _CACHE_IDLE_TIMEOUT
    /\ _is_connection_alive(driver, _CONNECTION_CACHE[k].connection)

\* C6: whatever password it is given, a connect_cached call returns the
\* connection id of a live cache entry that an earlier call created for the
\* same DSN, username and AutoCommit/RaiseError/PrintError flags.
C6_PasswordIndependent ==
    [][\A d \in DSNs, u \in Users, p \in Passwords, o \in OptionChoices :
          ConnectCached(d, u, p, o)
             => \A k \in DOMAIN _CONNECTION_CACHE :
                   (/\ LiveEntry(k)
                    /\ _CONNECTION_CACHE[k].dsn = d
                    /\ _CONNECTION_CACHE[k].username = u
                    /\ Flags(_CONNECTION_CACHE[k].options) = Flags(o))
                      => /\ lastResult'.success
                         /\ lastResult'.connection_id = _CONNECTION_CACHE[k].connection_id]_vars

\* A call with a password other than the one the entry was created with (and
\* which the database no longer accepts) was answered from the cache.
C6_Witness ==
    /\ lastResult.success
    /\ lastResult.cached
    /\ lastResult.connection_id \in DOMAIN connFiles
    /\ history.cached_password # ""
    /\ history.cached_password #
          _simple_decrypt(connFiles[lastResult.connection_id].password)

\* C7: a connect_cached call that finds a live entry under its key opens no
\* connection, hands out no id and writes no durable record, sets the entry's
\* last-used time to now and returns the entry's id with cached = true; a
\* call that finds none connects as connect does and, when that succeeds,
\* puts the new handle under the key and returns it with cached = false.
C7_HitAndMissEffects ==
    [][\A d \in DSNs, u \in Users, p \in Passwords, o \in OptionChoices :
          ConnectCached(d, u, p, o)
             => IF LiveEntry(_make_cache_key(d, u, o))
                THEN /\ Len(driver') = Len(driver)
                     /\ nextConn' = nextConn
                     /\ connFiles' = connFiles
                     /\ DOMAIN _connections' \subseteq DOMAIN _connections
                     /\ DOMAIN _CONNECTION_CACHE' \subseteq DOMAIN _CONNECTION_CACHE
                     /\ _CONNECTION_CACHE'[_make_cache_key(d, u, o)] =
                           [_CONNECTION_CACHE[_make_cache_key(d, u, o)]
                               EXCEPT !.last_used = now]
                     /\ lastResult'.success /\ lastResult'.cached
                     /\ lastResult'.connection_id =
                           _CONNECTION_CACHE[_make_cache_key(d, u, o)].connection_id
                ELSE /\ ~lastResult'.cached
                     /\ lastResult'.success = (p = dbPassword)
                     /\ IF p = dbPassword
                        THEN /\ nextConn' = nextConn + 1
                             /\ Len(driver') = Len(driver) + 1
                             /\ driver'[Len(driver')] = "open"
                             /\ lastResult'.connection_id = nextConn'
                             /\ nextConn' \in DOMAIN _connections'
                             /\ nextConn' \in DOMAIN connFiles'
                             /\ _CONNECTION_CACHE'[_make_cache_key(d, u, o)].connection_id
                                   = nextConn'
                        ELSE /\ nextConn' = nextConn
                             /\ Len(driver') = Len(driver)
                             /\ _make_cache_key(d, u, o) \notin DOMAIN _CONNECTION_CACHE']_vars

\* A call has been answered from an entry that was created earlier, and the
\* entry's last-used time is the time of the call.
C7_Witness ==
    /\ lastResult.success
    /\ lastResult.cached
    /\ \E k \in DOMAIN _CONNECTION_CACHE :
          /\ _CONNECTION_CACHE[k].connection_id = lastResult.connection_id
          /\ _CONNECTION_CACHE[k].created_at < now
          /\ _CONNECTION_CACHE[k].last_used = now

\* The errors that say a handle id is unknown.
InvalidIdErrors == {"Invalid connection ID", "Invalid statement ID"}

\* Connection c has to be restored from its durable record, and the database
\* refuses the login the record holds.
RestoreFails(c) ==
    /\ c \notin DOMAIN _connections
    /\ c \in DOMAIN connFiles
    /\ now - connFiles[c].created_at <= _CONNECTION_TIMEOUT
    /\ _simple_decrypt(connFiles[c].password) # dbPassword

\* Statement s has to be restored from its durable record.
StatementRestorable(s) ==
    /\ s \notin DOMAIN _statements
    /\ s \in DOMAIN stmtFiles
    /\ now - stmtFiles[s].created_at <= _CONNECTION_TIMEOUT

\* C8: every call that has to restore a connection whose restoration fails
\* (prepare, execute_statement and commit on the connection, fetch_row and
\* fetch_all on a statement it owns) deletes the connection's durable record
\* and returns an error other than the 'invalid id' errors.
C8_FailedRestoreDeletesRecord ==
    [][\A c \in IssuedConns :
          (/\ RestoreFails(c)
           /\ \/ CommitTxn(c)
              \/ \E q \in Queries : Prepare(c, q)
              \/ \E s \in IssuedStmts : ExecuteStatement(c, s)
              \/ \E s \in IssuedStmts :
                    /\ StatementRestorable(s)
                    /\ stmtFiles[s].connection_id = c
                    /\ (FetchRow(s) \/ FetchAll(s)))
             => /\ c \notin DOMAIN connFiles'
                /\ ~lastResult'.success
                /\ lastResult'.error \notin InvalidIdErrors \cup {""}]_vars

\* Connection id c is not in memory and has no durable record younger than
\* the time-to-live.
InvalidConnection(c) ==
    /\ c \notin DOMAIN _connections
    /\ c \in DOMAIN connFiles => now - connFiles[c].created_at > _CONNECTION_TIMEOUT

\* Statement id s is not in memory and has no durable record younger than
\* the time-to-live.
InvalidStatement(s) ==
    /\ s \notin DOMAIN _statements
    /\ s \in DOMAIN stmtFiles => now - stmtFiles[s].created_at > _CONNECTION_TIMEOUT

\* The call just made was refused with `error`, and it neither created nor
\* restored a handle, opened no connection and no cursor, and left no record
\* of connection c behind.
ConnectionRefused(c, error) ==
    /\ ~lastResult'.success
    /\ lastResult'.error = error
    /\ _connections' = _connections
    /\ _statements' = _statements
    /\ driver' = driver
    /\ c \notin DOMAIN connFiles'

\* The same for statement s.
StatementRefused(s, error) ==
    /\ ~lastResult'.success
    /\ lastResult'.error = error
    /\ _statements' = _statements
    /\ DOMAIN stmtFiles' = DOMAIN stmtFiles \ {s}

C10_FetchAfterDisconnect ==
    [][\A s \in IssuedStmts :
          (/\ history.stmt[s].owner \in history.disconnected
           /\ (FetchRow(s) \/ FetchAll(s)))
             => /\ ~lastResult'.success
                /\ lastResult'.error = "Invalid statement ID"
                /\ UNCHANGED <<_connections, _statements, driver, connFiles, stmtFiles>>]_vars

\* The checks of the current loop iteration passed: fewer tracked connections
\* than MAX_CONNECTIONS, and check_resource_limits reported no violation.
ChecksPassed ==
    /\ checked.connections \in 0..(MAX_CONNECTIONS - 1)
    /\ checked.resources
    /\ checked.violations = {}

\* C11: the listener reaches accept, and a pending client becomes an accepted
\* one, only when the checks of the same loop iteration found fewer tracked
\* connections than MAX_CONNECTIONS and no resource violation; an iteration
\* that finds a limit reached goes back to the head of the loop and leaves
\* every client, pending or accepted, and the server socket as they were.
C11_AcceptOnlyAfterChecks ==
    /\ [](lpc = "accept" => ChecksPassed)
    /\ [][/\ (\E t \in Threads : pc[t] = "pending" /\ pc'[t] # "pending")
                => lpc = "accept" /\ ChecksPassed
          /\ (lpc \in {"limits", "resources"} /\ lpc' = "loop")
                => /\ did' \in {"sleep_limit", "sleep_resources"}
                   /\ UNCHANGED <<pc, threads, server_socket, active_connections>>]_vars

\* After one connection had been registered, a second client was accepted at
\* an iteration whose checks passed.
C11_Witness ==
    /\ did = "accepted"
    /\ lpc = "loop"
    /\ \A t \in Threads : pc[t] \notin {"idle", "pending"}
    /\ \E t \in Threads : pc[t] = "accepted"
    /\ stats.connections_total = 1

\* C15: once the running flag is cleared, by a signal or by system.shutdown,
\* the accept loop ends, also from a throttled iteration; the server socket
\* is closed, every thread is joined or given up on, and the socket file is
\* removed.
C15_ShutdownCompletes ==
    (~running) ~> (lpc = "exited" /\ server_socket = "closed" /\ ~socket_file)

\* The daemon has exited after system.shutdown although one handler thread
\* had not ended when its join timed out.
C15_Witness ==
    /\ lpc = "exited"
    /\ ~socket_file
    /\ \E t \in Threads : ran[t].function = "shutdown"
    /\ \E t \in threads : IsAlive(t)

\* Thread t has finished reading the body its client sent.
ReadOf(t, body) ==
    /\ pc[t] = "read"
    /\ pc'[t] # "read"
    /\ bodies'[t] = {body}

\* The read of thread t ended in the 'Request too large' failure: the failure
\* response is built and goes out next, the request was neither validated nor
\* routed, and requests_rejected went up by one.
RejectedAsTooLarge(t) ==
    /\ pc'[t] = "send"
    /\ response'[t].built
    /\ ~response'[t].success
    /\ response'[t].error = <<"Request too large">>
    /\ received'[t] = {}
    /\ ran'[t] = NoRun
    /\ stats'.requests_rejected = stats.requests_rejected + 1
    /\ stats'.requests_failed = stats.requests_failed + 1
    /\ UNCHANGED <<routed, validations>>

ErrorKinds == {"ValueError", "RuntimeError", "JSONDecodeError", "AttributeError",
               "ModuleNotFoundError", "TypeError", "UnicodeDecodeError"}

\* C13: when the helper function or inline handler called for a request has
\* raised, the thread goes on to answer the client: the response is built
\* with success false, its error contains the message of the exception
\* raised, and its error_type names an exception class.
C13_HandlerErrorAnswered ==
    \A t \in Threads :
       ran[t].raised
          => /\ pc[t] \in {"send", "done"}
             /\ response[t].built
             /\ ~response[t].success
             /\ Contains(response[t].error, ran[t].message)
             /\ response[t].error_type \in ErrorKinds
             /\ {"success", "error", "error_type"} \subseteq response[t].keys

\* A helper function raised, and the failure response carrying its message
\* was sent.
C13_Witness ==
    \E t \in Threads :
       /\ ran[t].raised
       /\ ran[t].kind = "helper"
       /\ ran[t].message # <<>>
       /\ pc[t] = "done"
       /\ response[t].sent
       /\ response[t].error_type = "RuntimeError"

\* How far thread t has come in _handle_client.
Stage(at) ==
    CASE at = "accepted" -> 1
      [] at = "track_request" -> 2
      [] at = "track_store" -> 3
      [] at = "read" -> 4
      [] at = "validate" -> 5
      [] at = "route" -> 6
      [] at = "send" -> 7
      [] at = "done" -> 8
      [] OTHER -> 0

\* C14: a connection is read once and answered at most once: a thread past
\* its read never reads again, a response once built is only sent, and after
\* the close nothing more happens on the connection; and every accepted
\* connection is closed in the end, whether its request succeeded, was
\* rejected, was too large, failed in the handler or timed out while read.
C14_OneRequestOneResponseThenClosed ==
    /\ [][\A t \in Threads :
             /\ Stage(pc'[t]) >= Stage(pc[t])
             /\ Stage(pc[t]) > 4 => bodies'[t] = bodies[t] /\ received'[t] = received[t]
             /\ response[t].built
                   => /\ pc[t] = "send" \/ response'[t] = response[t]
                      /\ response'[t] = [response[t] EXCEPT !.sent = response'[t].sent]
             /\ pc[t] = "done" => response'[t] = response[t] /\ ran'[t] = ran[t]]_vars
    /\ \A t \in Threads : (pc[t] = "accepted") ~> (pc[t] = "done")

\* A connection whose client stalled was closed after the failure response,
\* and another was closed after its request succeeded.
C14_Witness ==
    /\ \E t \in Threads :
          /\ pc[t] = "done"
          /\ response[t].error = <<"Request timeout - data transmission too slow">>
    /\ \E t \in Threads :
          /\ pc[t] = "done"
          /\ response[t].success
          /\ response[t].sent

C17_WhitelistedInlineSucceeds ==
    \A t \in Threads :
       (/\ ran[t].kind = "inline"
        /\ ran[t].module \in {"test", "system"}
        /\ ran[t].function \in module_whitelist[ran[t].module])
          => /\ response[t].built
             /\ response[t].success
             /\ (ran[t].module = "test" /\ ran[t].function = "ping")
                   => response[t].result.message = "pong"

\* C18: a response whose top-level success is false has an error and an
\* error_type, and the error_type is the name of an exception class.
C18_FailureCarriesErrorAndType ==
    \A t \in Threads :
       (response[t].built /\ ~response[t].success)
          => /\ {"error", "error_type"} \subseteq response[t].keys
             /\ response[t].error_type \in ErrorKinds

\* Failure responses of two kinds have been built: one for a request the
\* validator rejected, and one for a body that was not JSON.
C18_Witness ==
    /\ \E t \in Threads :
          /\ response[t].built
          /\ ~response[t].success
          /\ response[t].error_type = "ValueError"
          /\ Len(response[t].error) > 1
    /\ \E t \in Threads :
          /\ response[t].built
          /\ ~response[t].success
          /\ response[t].error_type = "JSONDecodeError"

\* C19: with the debug level at 0, no response has a traceback, neither at the
\* top level of the response nor inside the result of the function called.
C19_NoTracebackAtDebugLevelZero ==
    DEBUG_LEVEL = 0
       => \A t \in Threads :
             response[t].built
                => /\ "traceback" \notin response[t].keys
                   /\ "traceback" \notin response[t].result.keys

\* C20: the calls of track_request are counted one by one: the counter of
\* concurrent requests is the number of threads that have completed their
\* call, however the calls of different threads interleave.
C20_EveryTrackRequestCounted ==
    concurrent_requests = Cardinality({t \in Threads : Stage(pc[t]) >= 4})

\* C21: when the calls that found a connection id absent from memory have
\* all finished, the only open driver connections are the ones registered in
\* _connections: a connection restored for an id and then replaced by
\* another call's has been closed.
C21_LoserOfRestoreRaceClosed ==
    (\A t \in Threads : restoring[t].at \in {"idle", "done"})
       => \A h \in DOMAIN driver :
             driver[h] = "open"
                => \E c \in DOMAIN _connections : _connections[c].connection = h

\* C22: when every request that was in flight has completed and memory, CPU
\* and request rate are within their limits, check_resource_limits reports
\* no violation, so that the next iteration of the listener goes on to
\* accept.
C22_QuiescentDaemonAdmits ==
    (running /\ \A t \in Threads : ~IsAlive(t))
       => check_resource_limits({}) = {}

\* C23: a finish_statement that returns success leaves the statement neither
\* in memory nor in durable storage, so that no later fetch or execute can
\* restore it.
C23_FinishDestroysStatement ==
    [][\A s \in IssuedStmts :
          (FinishStatement(s) /\ lastResult'.success)
             => /\ s \notin DOMAIN _statements'
                /\ s \notin DOMAIN stmtFiles']_vars

\* C24: get_out_params, get_connection_error and get_statement_error, given
\* an id that is absent from memory and has a durable record that has not
\* expired, restore the handle and go on: the call does not fail for the id,
\* and the handle is in memory afterwards.
C24_AccessorsRestore ==
    [][/\ \A c \in IssuedConns :
             (/\ GetConnectionError(c)
              /\ c \notin DOMAIN _connections
              /\ c \in DOMAIN connFiles
              /\ now - connFiles[c].created_at <= _CONNECTION_TIMEOUT)
                => lastResult'.success /\ c \in DOMAIN _connections'
       /\ \A s \in IssuedStmts :
             (/\ GetOutParams(s) \/ GetStatementError(s)
              /\ s \notin DOMAIN _statements
              /\ s \in DOMAIN stmtFiles
              /\ now - stmtFiles[s].created_at <= _CONNECTION_TIMEOUT)
                => s \in DOMAIN _statements']_vars

\* The cache entries a connect_cached called now purges at its start: idle
\* for longer than the idle timeout, or failing the liveness probe.
StaleKeys ==
    {k \in DOMAIN _CONNECTION_CACHE :
        \/ now - _CONNECTION_CACHE[k].last_used > _CACHE_IDLE_TIMEOUT
        \/ ~_is_connection_alive(driver, _CONNECTION_CACHE[k].connection)}

\* C25: a connect_cached call removes every stale entry from the cache,
\* closes its connection, and removes its connection id from memory and from
\* durable storage.
C25_PurgedIdUnresolvable ==
    [][\A d \in DSNs, u \in Users, p \in Passwords, o \in OptionChoices :
          ConnectCached(d, u, p, o)
             => \A k \in StaleKeys :
                   /\ k \in DOMAIN _CONNECTION_CACHE'
                         => _CONNECTION_CACHE'[k].connection_id
                               # _CONNECTION_CACHE[k].connection_id
                   /\ ~Usable(driver', _CONNECTION_CACHE[k].connection)
                   /\ _CONNECTION_CACHE[k].connection_id \notin DOMAIN _connections'
                   /\ _CONNECTION_CACHE[k].connection_id \notin DOMAIN connFiles']_vars

\* The cache ceiling scaled down so that the few distinct keys of the model
\* reach it: _CACHE_MAX_SIZE with MaxCacheEntries in place of 50.
MaxCacheEntries == 1

InitCapacity ==
    /\ InitDb
    /\ InitHandlers("accepted")
    /\ InitListener
    /\ DEBUG_LEVEL = 0
    /\ cache_limit = MaxCacheEntries

SpecCapacity == InitCapacity /\ [][NextCache]_vars

\* C26: when a connect_cached call returns, the cache holds at most
\* _CACHE_MAX_SIZE entries.
C26_CacheWithinCeiling ==
    [][\A d \in DSNs, u \in Users, p \in Passwords, o \in OptionChoices :
          ConnectCached(d, u, p, o)
             => Cardinality(DOMAIN _CONNECTION_CACHE') <= cache_limit]_vars

\* C27: no step changes the created_at of a durable record that exists before
\* and after it, whether a connection record or a statement record.
C27_CreatedAtWrittenOnce ==
    [][/\ \A c \in DOMAIN connFiles \cap DOMAIN connFiles' :
             connFiles'[c].created_at = connFiles[c].created_at
       /\ \A s \in DOMAIN stmtFiles \cap DOMAIN stmtFiles' :
             stmtFiles'[s].created_at = stmtFiles[s].created_at]_vars

\* C28: the performance monitor holds exactly one sample per dispatched call,
\* whether the call returned or raised.
C28_OneSamplePerDispatch ==
    performance_samples = Cardinality({t \in Threads : ran[t].kind # "none"})

\* C29: a request that names a whitelisted (module, function) pair and
\* carries nothing else passes validation and goes on to be dispatched.
C29_WhitelistedPairDispatched ==
    [][\A t \in Threads :
          (/\ ValidateRequest(t)
           /\ \A r \in received[t] :
                 /\ DOMAIN r = {"module", "function"}
                 /\ r.module \in DOMAIN module_whitelist
                 /\ r.function \in module_whitelist[r.module])
             => pc'[t] = "route"]_vars

\* C30: the live-connection table never holds more than MAX_CONNECTIONS
\* entries.
C30_TableWithinMaximum ==
    Cardinality(active_connections) <= MAX_CONNECTIONS

\* C31: when fetch_all is the first fetch after an execute_statement that
\* probed a row, it returns the complete result set, the probed row first.
C31_FetchAllDeliversProbedRow ==
    [][\A s \in StmtIds :
          (/\ s \in DOMAIN _statements
           /\ _statements[s].executed
           /\ _statements[s].peeked_row # NoRow
           /\ delivered[s] = <<>>
           /\ ~history.stmt[s].fetch_all
           /\ ~history.stmt[s].restored
           /\ FetchAll(s)
           /\ lastResult'.success)
             => delivered'[s] = ResultSet(_statements[s].sql)]_vars

\* C32: whenever the dispatched handler's own result reports a failure, the
\* top-level success of the response is false.
C32_TopLevelSuccessTellsFailure ==
    \A t \in Threads :
       (/\ response[t].built
        /\ ran[t].kind = "helper"
        /\ ~response[t].result.success)
          => ~response[t].success

\* C33: every completed request is counted under exactly one of rejected,
\* failed and processed, so the three counters add up to the number of
\* requests answered.
C33_OutcomesCountedDisjointly ==
    stats.requests_rejected + stats.requests_failed + stats.requests_processed
       = Cardinality({t \in Threads : response[t].built})

(***************************************************************************)
(* ResourceManager.check_resource_limits with the readings it takes.       *)
(***************************************************************************)
MAX_MEMORY_MB == 1024
MAX_CPU_PERCENT == 200
\* MAX_REQUESTS_PER_MINUTE as configured for the model.
MAX_REQUESTS_PER_MINUTE == 1
MaxResourceChecks == 2

\* process.memory_info() in MB and process.cpu_percent(): below the warning
\* threshold, above it, at the limit and above the limit.
MemoryReadings == {512, 820, 1024, 1025}
CpuReadings == {100, 161, 200, 201}

\* The handler threads that have appended their timestamp in track_request.
Tracked == {t \in Threads : pc[t] \notin {"idle", "accepted", "track_request"}}

\* Lines 1038-1062: the violations and warnings of one check.  'limit * 0.8'
\* is compared in tenths.
ResourceStatus(memory_mb, cpu_percent, requests_per_minute, concurrent) ==
    [memory_mb |-> memory_mb, cpu_percent |-> cpu_percent,
     requests_per_minute |-> requests_per_minute,
     concurrent_requests |-> concurrent,
     violations |->
        (IF memory_mb > MAX_MEMORY_MB THEN {"memory"} ELSE {})
        \cup (IF cpu_percent > MAX_CPU_PERCENT THEN {"cpu"} ELSE {})
        \cup (IF requests_per_minute > MAX_REQUESTS_PER_MINUTE THEN {"requests"} ELSE {})
        \cup (IF concurrent > MAX_CONCURRENT_REQUESTS THEN {"concurrent"} ELSE {}),
     warnings |->
        (IF memory_mb <= MAX_MEMORY_MB /\ memory_mb * 10 > MAX_MEMORY_MB * 8
         THEN {"memory"} ELSE {})
        \cup (IF cpu_percent <= MAX_CPU_PERCENT /\ cpu_percent * 10 > MAX_CPU_PERCENT * 8
              THEN {"cpu"} ELSE {}),
     checked |-> TRUE]

\* Lines 1020-1074: one call of check_resource_limits.  The timestamps of the
\* last minute are those of some of the requests tracked so far.
CheckResourceLimits(memory_mb, cpu_percent, requests_per_minute) ==
    /\ resource_manager.checks < MaxResourceChecks
    /\ requests_per_minute <= Cardinality(Tracked)
    /\ \E status \in {ResourceStatus(memory_mb, cpu_percent, requests_per_minute,
                                     concurrent_requests)} :
          /\ resource_status' = status
          /\ resource_manager' =
                [peak_memory |-> IF memory_mb > resource_manager.peak_memory
                                 THEN memory_mb ELSE resource_manager.peak_memory,
                 peak_cpu |-> IF cpu_percent > resource_manager.peak_cpu
                              THEN cpu_percent ELSE resource_manager.peak_cpu,
                 checks |-> resource_manager.checks + 1,
                 resource_alerts |->
                    [k \in DOMAIN resource_manager.resource_alerts \cup status.violations |->
                        (IF k \in DOMAIN resource_manager.resource_alerts
                         THEN resource_manager.resource_alerts[k] ELSE 0)
                        + (IF k \in status.violations THEN 1 ELSE 0)]]
    /\ UNCHANGED <<dbvars, daemonvars, DEBUG_LEVEL, bodies, lpc, checked, did, threads,
                   to_join, server_socket, socket_file, validations, cache_limit,
                   restoring, health_history, lockvars>>

NextResources ==
    \/ \E t \in Threads : Register(t)
    \/ \E t \in Threads : TrackLoad(t)
    \/ \E t \in Threads : TrackStore(t)
    \/ \E memory_mb \in MemoryReadings, cpu_percent \in CpuReadings,
          requests_per_minute \in 0..MaxClients :
          CheckResourceLimits(memory_mb, cpu_percent, requests_per_minute)

SpecResources == Init /\ [][NextResources]_vars

\* C34: each of the four governed metrics is reported as a violation when it
\* exceeds its limit, and as a warning and not a violation when it is above
\* 80% of the limit without exceeding it.
C34_EveryMetricWarnsAtEightyPercent ==
    resource_status.checked
       => \A metric \in {<<"memory", resource_status.memory_mb, MAX_MEMORY_MB>>,
                         <<"cpu", resource_status.cpu_percent, MAX_CPU_PERCENT>>,
                         <<"requests", resource_status.requests_per_minute,
                           MAX_REQUESTS_PER_MINUTE>>,
                         <<"concurrent", resource_status.concurrent_requests,
                           MAX_CONCURRENT_REQUESTS>>} :
             /\ metric[2] > metric[3] => metric[1] \in resource_status.violations
             /\ (metric[2] <= metric[3] /\ metric[2] * 10 > metric[3] * 8)
                   => /\ metric[1] \in resource_status.warnings
                      /\ metric[1] \notin resource_status.violations

\* C35: a request whose params nest deeper than MAX_OBJECT_DEPTH is either
\* refused by validation or handed on with params no deeper than the bound.
C35_SanitizedWithinDepth ==
    \A i \in 1..Len(validations) :
       (/\ validations[i].request.params \in StructuredParams
        /\ ObjectDepth(Json(validations[i].request.params)) > MAX_OBJECT_DEPTH
        /\ validations[i].result.is_valid)
          => \A sanitized \in validations[i].result.sanitized_request :
                /\ sanitized.params \in StructuredParams
                /\ ObjectDepth(Json(sanitized.params)) <= MAX_OBJECT_DEPTH

\* C36: a complete, well-formed request of at most the maximum request size
\* is never answered with the size-limit error.
C36_WithinSizeNeverTooLarge ==
    [][\A t \in Threads, body \in Bodies :
          (/\ body.chunks >= 1
           /\ body.complete = body.chunks
           /\ body.value = "object"
           /\ body.chunks <= MaxRequestChunks
           /\ ReadFails(t, body))
             => response'[t].error # ReadError("too_large").error]_vars

\* C37: a complete, well-formed request below the maximum size is read and
\* goes on to validation however the transport splits it into chunks.
C37_ReadIndependentOfChunking ==
    [][\A t \in Threads, body \in Bodies :
          (/\ body.chunks >= 1
           /\ body.complete = body.chunks
           /\ body.value = "object"
           /\ body.chunks < MaxRequestChunks)
             => ~ReadFails(t, body)]_vars

\* C38: a connect_cached call that succeeds never returns a connection id on
\* which disconnect has been called before.
C38_DisconnectedIdNeverReturned ==
    [][\A d \in DSNs, u \in Users, p \in Passwords, o \in OptionChoices :
          (ConnectCached(d, u, p, o) /\ lastResult'.success)
             => lastResult'.connection_id \notin history.disconnected]_vars

\* Connection 1 was handed out by connect_cached and disconnected, and a
\* later connect_cached call, made while the entry of connection 1 was still
\* cached, has created connection 2.
C38_Witness ==
    /\ history.disconnected = {1}
    /\ nextConn = 2
    /\ lastResult.success
    /\ lastResult.connection_id = 2
    /\ ~lastResult.cached
    /\ \A k \in DOMAIN _CONNECTION_CACHE : _CONNECTION_CACHE[k].connection_id = 2

(***************************************************************************)
(* HealthChecker.perform_health_check.                                     *)
(***************************************************************************)
MaxHealthChecks == 2

\* os.name, and the readings the checks take: memory in MB around the 500 and
\* 1000 thresholds, CPU around 80 and 95, and what the performance monitor
\* reports as overall_health with its concerns.
OsNames == {"posix", "nt"}
HealthMemoryReadings == {100, 600, 1000, 1001}
HealthCpuReadings == {50, 90, 95, 96}
PerformanceIndicators ==
    {[overall_health |-> "healthy", concerns |-> {}],
     [overall_health |-> "healthy", concerns |-> {"High load"}],
     [overall_health |-> "degraded", concerns |-> {"High error rate"}]}

\* The core modules _check_helper_modules expects.
expected_modules ==
    {"test", "http", "datetime_helper", "crypto", "email_helper", "logging_helper",
     "excel", "sftp", "xpath"}

\* Lines 796-815: _check_daemon_components.
HealthOfComponents(active_threads) ==
    [checks |-> {<<"daemon_running", "pass">>,
                 <<"thread_health", IF active_threads < 100 THEN "pass" ELSE "warn">>},
     warnings |-> IF active_threads > 100 THEN {"High thread count"} ELSE {},
     errors |-> {}]

\* Lines 817-853: _check_resource_usage.
HealthOfResources(memory_mb, cpu_percent) ==
    [checks |-> {<<"memory_usage", IF memory_mb < 500 THEN "pass"
                                   ELSE IF memory_mb < 1000 THEN "warn" ELSE "fail">>,
                 <<"cpu_usage", IF cpu_percent < 80 THEN "pass"
                                ELSE IF cpu_percent < 95 THEN "warn" ELSE "fail">>},
     warnings |-> (IF memory_mb <= 1000 /\ memory_mb > 500
                   THEN {"Elevated memory usage"} ELSE {})
                  \cup (IF cpu_percent <= 95 /\ cpu_percent > 80
                        THEN {"Elevated CPU usage"} ELSE {}),
     errors |-> (IF memory_mb > 1000 THEN {"High memory usage"} ELSE {})
                \cup (IF cpu_percent > 95 THEN {"High CPU usage"} ELSE {})]

\* Lines 855-875: _check_helper_modules; 'len(expected_modules) * 0.8' is
\* compared in tenths.
HealthOfModules(loaded_modules) ==
    [checks |-> {<<"helper_modules",
                   IF loaded_modules * 10 >= Cardinality(expected_modules) * 8
                   THEN "pass" ELSE "warn">>},
     warnings |-> IF loaded_modules * 10 < Cardinality(expected_modules) * 8
                  THEN {"Some helper modules missing"} ELSE {},
     errors |-> {}]

\* Lines 877-919: _check_socket_connectivity.  `self` is the HealthChecker,
\* which has no server_socket attribute; on the Unix branch the error is
\* appended after the if/else on the socket file, for either outcome.
HealthOfSocket(os_name, socket_file_exists) ==
    IF os_name = "nt"
    THEN [checks |-> {<<"socket_connectivity", "fail">>}, warnings |-> {}, errors |-> {}]
    ELSE [checks |-> {<<"socket_connectivity",
                        IF socket_file_exists THEN "pass" ELSE "fail">>},
          warnings |-> {},
          errors |-> {"Socket file not accessible"}]

\* Lines 921-949: _check_performance_indicators.
HealthOfPerformance(indicators) ==
    [checks |-> {<<"performance",
                   IF indicators.overall_health = "healthy" THEN "pass" ELSE "warn">>},
     warnings |-> indicators.concerns,
     errors |-> {}]

\* Lines 765-787: the five checks and the overall status.
perform_health_check(os_name, socket_file_exists, active_threads, memory_mb, cpu_percent, loaded_modules, indicators) ==
    The({
    [overall_status |-> IF errors # {} THEN "unhealthy"
                        ELSE IF warnings # {} THEN "degraded" ELSE "healthy",
     checks |-> UNION {c.checks : c \in parts},
     warnings |-> warnings,
     errors |-> errors,
     os_name |-> os_name,
     socket_file_exists |-> socket_file_exists]
    : parts \in {{HealthOfComponents(active_threads),
                  HealthOfResources(memory_mb, cpu_percent),
                  HealthOfModules(loaded_modules),
                  HealthOfSocket(os_name, socket_file_exists),
                  HealthOfPerformance(indicators)}},
      warnings \in {UNION {c.warnings : c \in
                      {HealthOfComponents(active_threads),
                       HealthOfResources(memory_mb, cpu_percent),
                       HealthOfModules(loaded_modules),
                       HealthOfSocket(os_name, socket_file_exists),
                       HealthOfPerformance(indicators)}}},
      errors \in {UNION {c.errors : c \in
                      {HealthOfComponents(active_threads),
                       HealthOfResources(memory_mb, cpu_percent),
                       HealthOfModules(loaded_modules),
                       HealthOfSocket(os_name, socket_file_exists),
                       HealthOfPerformance(indicators)}}} })

\* Lines 765-794: one health check; its result is appended to the history.
PerformHealthCheck(os_name, memory_mb, cpu_percent, indicators) ==
    /\ Len(health_history) < MaxHealthChecks
    /\ health_history' = Append(health_history,
          perform_health_check(os_name, socket_file,
                               Cardinality({t \in threads : IsAlive(t)}),
                               memory_mb, cpu_percent, Cardinality(helper_modules),
                               indicators))
    /\ UNCHANGED <<dbvars, daemonvars, DEBUG_LEVEL, bodies, lpc, checked, did, threads,
                   to_join, server_socket, socket_file, validations, cache_limit,
                   restoring, resource_manager, resource_status, lockvars>>

\* The socket file is removed from outside the daemon.
SocketFileRemoved ==
    /\ socket_file
    /\ socket_file' = FALSE
    /\ UNCHANGED <<dbvars, daemonvars, DEBUG_LEVEL, bodies, lpc, checked, did, threads,
                   to_join, server_socket, validations, helpervars>>

NextHealth ==
    \/ \E os_name \in OsNames, memory_mb \in HealthMemoryReadings,
          cpu_percent \in HealthCpuReadings, indicators \in PerformanceIndicators :
          PerformHealthCheck(os_name, memory_mb, cpu_percent, indicators)
    \/ SocketFileRemoved

SpecHealth == Init /\ [][NextHealth]_vars

\* C39: a health check reports 'unhealthy' only when one of its checks has
\* status 'fail', and 'healthy' when every check passes and there is no
\* warning; with the socket file present and every check passing it reports
\* 'healthy'.
C39_UnhealthyOnlyOnFailedCheck ==
    \A i \in 1..Len(health_history) :
       /\ health_history[i].overall_status = "unhealthy"
             => \E c \in health_history[i].checks : c[2] = "fail"
       /\ (/\ \A c \in health_history[i].checks : c[2] = "pass"
           /\ health_history[i].warnings = {})
             => health_history[i].overall_status = "healthy"

(***************************************************************************)
(* helpers/lockfile.py: trylock and release on one lock file path, each    *)
(* file-system call a step of its own.  The callers are the handler        *)
(* threads (or other processes using the same path).                       *)
(***************************************************************************)
\* The hold time of make(): seconds after which a lock file is stale.
hold == 90
LockTickStep == 91
MaxLockTime == 182
MaxLockInstances == 3

\* Lines 282-307: _is_stale_lock.
_is_stale_lock(file, hold_time) ==
    IF ~file.exists THEN FALSE ELSE now - file.mtime > hold_time

lockframe == <<dbvars, daemonvars, DEBUG_LEVEL, bodies, lpc, checked, did, threads,
               to_join, server_socket, socket_file, validations, cache_limit, restoring,
               monitorvars>>

\* Line 103: if os.path.exists(lockfile_path)
TrylockExists(p) ==
    /\ locking[p] = "idle"
    /\ Cardinality(LOCK_INSTANCES) < MaxLockInstances
    /\ locking' = [locking EXCEPT ![p] = IF lock_file.exists THEN "stale?" ELSE "open"]
    /\ UNCHANGED <<lock_file, LOCK_INSTANCES>>
    /\ UNCHANGED lockframe

\* Line 104: if _is_stale_lock(lockfile_path, manager['hold'])
TrylockStale(p) ==
    /\ locking[p] = "stale?"
    /\ locking' = [locking EXCEPT ![p] =
                      IF _is_stale_lock(lock_file, hold) THEN "remove" ELSE "open"]
    /\ UNCHANGED <<lock_file, LOCK_INSTANCES>>
    /\ UNCHANGED lockframe

\* Lines 105-109: os.remove(lockfile_path), an OSError ignored.
TrylockRemove(p) ==
    /\ locking[p] = "remove"
    /\ lock_file' = NoFile
    /\ locking' = [locking EXCEPT ![p] = "open"]
    /\ UNCHANGED LOCK_INSTANCES
    /\ UNCHANGED lockframe

\* Lines 120-122: os.open with O_CREAT | O_EXCL creates the file, or raises
\* FileExistsError.
TrylockOpen(p) ==
    /\ locking[p] = "open"
    /\ IF lock_file.exists
       THEN /\ locking' = [locking EXCEPT ![p] = "exists"]
            /\ UNCHANGED lock_file
       ELSE /\ lock_file' = [exists |-> TRUE, mtime |-> now, pid |-> 0]
            /\ locking' = [locking EXCEPT ![p] = "write"]
    /\ UNCHANGED LOCK_INSTANCES
    /\ UNCHANGED lockframe

\* Lines 123-141: the file exists; a lock that is not stale refuses the
\* caller, a stale one is taken over.
TrylockExistsStale(p) ==
    /\ locking[p] = "exists"
    /\ locking' = [locking EXCEPT ![p] =
                      IF _is_stale_lock(lock_file, hold) THEN "takeover" ELSE "idle"]
    /\ UNCHANGED <<lock_file, LOCK_INSTANCES>>
    /\ UNCHANGED lockframe

\* Lines 127-129: os.remove of the stale file; a file already gone raises
\* OSError and the caller is refused.
TrylockTakeoverRemove(p) ==
    /\ locking[p] = "takeover"
    /\ IF lock_file.exists
       THEN /\ lock_file' = NoFile
            /\ locking' = [locking EXCEPT ![p] = "reopen"]
       ELSE /\ locking' = [locking EXCEPT ![p] = "idle"]
            /\ UNCHANGED lock_file
    /\ UNCHANGED LOCK_INSTANCES
    /\ UNCHANGED lockframe

\* Lines 130-136: the second os.open with O_CREAT | O_EXCL.
TrylockReopen(p) ==
    /\ locking[p] = "reopen"
    /\ IF lock_file.exists
       THEN /\ locking' = [locking EXCEPT ![p] = "idle"]
            /\ UNCHANGED lock_file
       ELSE /\ lock_file' = [exists |-> TRUE, mtime |-> now, pid |-> 0]
            /\ locking' = [locking EXCEPT ![p] = "write"]
    /\ UNCHANGED LOCK_INSTANCES
    /\ UNCHANGED lockframe

\* Lines 143-171: the pid is written through the descriptor (to the file if
\* it is still the one at the path) and the lock instance is recorded.
TrylockWrite(p) ==
    /\ locking[p] = "write"
    /\ lock_file' = IF lock_file.exists
                    THEN [lock_file EXCEPT !.mtime = now, !.pid = p] ELSE lock_file
    /\ LOCK_INSTANCES' = LOCK_INSTANCES \cup
          {[lock_id |-> Cardinality(LOCK_INSTANCES) + 1, pid |-> p, acquired_at |-> now]}
    /\ locking' = [locking EXCEPT ![p] = "idle"]
    /\ UNCHANGED lockframe

\* Lines 185-227: release removes the lock file if there is one and forgets
\* the instance.
Release(lock) ==
    /\ lock \in LOCK_INSTANCES
    /\ locking[lock.pid] = "idle"
    /\ lock_file' = NoFile
    /\ LOCK_INSTANCES' = LOCK_INSTANCES \ {lock}
    /\ UNCHANGED locking
    /\ UNCHANGED lockframe

NextLock ==
    \/ \E p \in Threads : TrylockExists(p)
    \/ \E p \in Threads : TrylockStale(p)
    \/ \E p \in Threads : TrylockRemove(p)
    \/ \E p \in Threads : TrylockOpen(p)
    \/ \E p \in Threads : TrylockExistsStale(p)
    \/ \E p \in Threads : TrylockTakeoverRemove(p)
    \/ \E p \in Threads : TrylockReopen(p)
    \/ \E p \in Threads : TrylockWrite(p)
    \/ \E lock \in LOCK_INSTANCES : Release(lock)
    \/ Tick(LockTickStep, MaxLockTime)

SpecLock == Init /\ [][NextLock]_vars

\* C40: no two unreleased lock instances on the path are both within the
\* hold time.
C40_LockMutualExclusion ==
    \A a, b \in LOCK_INSTANCES :
       (/\ a # b
        /\ now - a.acquired_at <= hold
        /\ now - b.acquired_at <= hold)
          => FALSE

====
